---- MODULE Spec2Model ----
(***************************************************************************)
(* A model of crd-swagger's Rancher pipeline (pkg/cmd): run() sequences    *)
(* parseGroupKind, the container lifecycle (pull, create, start, wait),    *)
(* the kubeconfig copy poll, waitForDesiredResources (the discovery gate), *)
(* getSwagger, getDesiredPaths, FilterSpecByPaths, writeDoc and the        *)
(* deferred stop.  Strings are sequences of one-character strings, so that *)
(* trimming, splitting and formatting are computed as the code computes    *)
(* them.  The container runtime and the cluster are the environment: each  *)
(* call to them answers with any of the outcomes listed for it.            *)
(***************************************************************************)
EXTENDS Integers, Sequences, FiniteSets, TLC

VARIABLES
    pc,                 \* position of run()
    err,                \* run's named result err (NoErr is nil)
    deferred,           \* TRUE once run's deferred stop is registered
    desiredGroupKinds,  \* run's desiredGroupKinds map (key -> found flag)
    hostPorts,          \* cmdFlags.hostPortHTTP / hostPortHTTPS, then rancherContainer.hostPort / hostPortHTTPS
    containerID,        \* rancherContainer.containerID ("" until created)
    calls,              \* every call to the container runtime or the cluster and every read of its answer, in order
    stages,             \* every stage of run that returned, with its result, in order
    inspectPolls,       \* condition calls made by waitForRancherContainer's poll
    copyPolls,          \* condition calls made by getKubeConfigFromContainer's poll
    kubeConfig,         \* the bytes getKubeConfigFromContainer returned
    gate,               \* waitForDesiredResources: "idle", "polling", "ok", "timeout", "canceled"
    GKfound,            \* waitForDesiredResources' own GKfound map
    discLog,            \* what each discovery poll cycle received, in order
    logs,               \* the log lines that name resource keys
    swagger,            \* the OpenAPI document held by run (NoDoc until retrieved)
    keepPaths,          \* run's keepPaths slice
    output,             \* what writeDoc wrote: "none", "stdout" or "file"
    ctxDone,            \* TRUE once the context given to the polls is cancelled
    server,             \* the server URL in the kubeconfig that the container holds
    restHost,           \* restCfg.Host of the cluster client ("" until it is built)
    source,             \* the resources file as getContentReader and the scanner meet it
    walker,             \* the aggregator's Walker: root, alreadyVisited, what it walked
    k3sPort,            \* cmdFlags.k3sPort, the value of --cluster-port
    portBindings        \* the PortBindings of the HostConfig of each ContainerCreate call, in order

vars == << pc, err, deferred, desiredGroupKinds, hostPorts, containerID,
           calls, stages, inspectPolls, copyPolls, kubeConfig, gate, GKfound,
           discLog, logs, swagger, keepPaths, output, ctxDone, server, restHost,
           source, walker, k3sPort, portBindings >>

-----------------------------------------------------------------------------
(* Bounds of the model: how many condition calls fit into each poll budget. *)

\* waitTime / waitInterval of the container poll, scaled down
MaxInspectPolls == 2

\* waitTime / waitInterval of the kubeconfig poll, scaled down
MaxCopyPolls == 2

\* discoveryPollTimeout / discoveryPollInterval, scaled down
MaxDiscoveryPolls == 3

-----------------------------------------------------------------------------
(* Strings as sequences of characters.                                      *)

\* a nil error; an error is the chain of its messages, outermost first, each a string
NoErr == << >>

\* the error chain of the given messages, each as a one-piece string
Chain(msgs) == [i \in 1..Len(msgs) |-> << msgs[i] >>]

IsSpace(c) == c \in {" ", "\t"}

RECURSIVE TrimLeft(_)
TrimLeft(s) ==
    IF s # << >> /\ IsSpace(Head(s)) THEN TrimLeft(Tail(s)) ELSE s

RECURSIVE TrimRight(_)
TrimRight(s) ==
    IF s # << >> /\ IsSpace(s[Len(s)]) THEN TrimRight(SubSeq(s, 1, Len(s) - 1)) ELSE s

\* strings.TrimLeft alone: trailing white space is kept
TrimSpaceLeftOnly(s) == TrimLeft(s)

\* strings.TrimSpace
TrimSpace(s) == TrimRight(TrimLeft(s))

\* strings.HasPrefix(s, "#")
HasHashPrefix(s) == s # << >> /\ Head(s) = "#"

\* strings.Index(s, c), 0 when c does not occur
IndexOf(s, c) ==
    IF \E i \in 1..Len(s) : s[i] = c
    THEN CHOOSE i \in 1..Len(s) : s[i] = c /\ \A j \in 1..(i - 1) : s[j] # c
    ELSE 0

\* strings.Count(s, c)
CountOf(s, c) == Cardinality({i \in 1..Len(s) : s[i] = c})

\* a split at the last dot instead of the first
SplitLastDot(line) ==
    LET dots == {i \in 1..Len(line) : line[i] = "."}
    IN  IF dots = {} THEN << line >>
        ELSE LET i == CHOOSE d \in dots : \A e \in dots : e <= d
             IN  << SubSeq(line, 1, i - 1), SubSeq(line, i + 1, Len(line)) >>

\* strings.SplitN(line, ".", 2)
SplitN2(line) ==
    LET i == IndexOf(line, ".")
    IN  IF i = 0 THEN << line >>
        ELSE << SubSeq(line, 1, i - 1), SubSeq(line, i + 1, Len(line)) >>

\* metav1.GroupKind{Group, Kind}
GroupKind(group, kind) == [Group |-> group, Kind |-> kind]

\* gk.String(): Kind alone when the group is empty, else Kind.Group
GKString(gk) ==
    IF gk.Group = << >> THEN gk.Kind ELSE gk.Kind \o << "." >> \o gk.Group

-----------------------------------------------------------------------------
(* parseGroupKind                                                           *)

\* one scanned line: the key it contributes, as a set (empty when skipped)
LineKeys(text) ==
    LET line == TrimSpace(text)
    IN  IF line = << >> \/ HasHashPrefix(line) THEN {}
        ELSE LET parts == SplitN2(line)
             IN  IF Len(parts) = 2
                 THEN {GroupKind(parts[2], parts[1])}
                 ELSE {GroupKind(<< >>, parts[1])}

\* the key set of groupKindsMap after the scan loop
ParsedKeys(lines) == UNION {LineKeys(lines[i]) : i \in 1..Len(lines)}

\* a map whose keys start out found
ParsedMapAllFound(lines) == [gk \in ParsedKeys(lines) |-> TRUE]

\* groupKindsMap: every parsed key, each with the value false
ParsedMap(lines) == [gk \in ParsedKeys(lines) |-> FALSE]

\* the "Resource %s parsed successfully" lines of the scan loop, one for each
\* line that reached the end of the loop body
RECURSIVE ParsedLog(_)
ParsedLog(lines) ==
    IF lines = << >> THEN << >>
    ELSE (IF LineKeys(Head(lines)) = {} THEN << >>
          ELSE << [msg |-> "Resource parsed successfully",
                   names |-> << GKString(CHOOSE gk \in LineKeys(Head(lines)) : TRUE) >>] >>)
         \o ParsedLog(Tail(lines))

-----------------------------------------------------------------------------
(* The inputs of a run.                                                     *)

LnAg == << "A", ".", "g" >>
LnAgh == << "A", ".", "g", ".", "h" >>
LnB == << " ", "B", " " >>
LnComment == << " ", "#", "c" >>
LnBlank == << " " >>

\* contents of the resources file
InputFiles ==
    { << LnAg >>,
      << LnB, LnComment, LnBlank, LnAg >>,
      << LnAgh, LnAgh >>,
      << LnComment, LnBlank >> }

\* what getContentReader and the scanner can meet
Sources ==
    {[open |-> "ok", lines |-> f] : f \in InputFiles}
        \cup {[open |-> o, lines |-> << LnAg >>] : o \in {"openfail", "badstatus", "readerr"}}

\* --http-port and --https-port values
HTTPPortFlags == {"", "80", "443", "6443"}
HTTPSPortFlags == {"", "443", "6443"}

\* both flags left at their defaults, and both set to one port
RunPortFlags == { << "80", "443" >>, << "443", "443" >> }

\* https://127.0.0.1:6443, the server URL of the kubeconfig that k3s writes
K3sServer ==
    << "h", "t", "t", "p", "s", ":", "/", "/",
       "1", "2", "7", ".", "0", ".", "0", ".", "1", ":", "6", "4", "4", "3" >>

\* server URLs a kubeconfig may hold: the k3s one, https://h:1/p, http://[::1]:8,
\* https://h (no port) and https://[::1] (no port)
ServerURLs ==
    { K3sServer,
      << "h", "t", "t", "p", "s", ":", "/", "/", "h", ":", "1", "/", "p" >>,
      << "h", "t", "t", "p", ":", "/", "/", "[", ":", ":", "1", "]", ":", "8" >>,
      << "h", "t", "t", "p", "s", ":", "/", "/", "h" >>,
      << "h", "t", "t", "p", "s", ":", "/", "/", "[", ":", ":", "1", "]" >> }

-----------------------------------------------------------------------------
(* The cluster: discovery answers and OpenAPI documents.                    *)

KeyAg == GroupKind(<< "g" >>, << "A" >>)
KeyAgh == GroupKind(<< "g", ".", "h" >>, << "A" >>)
KeyB == GroupKind(<< >>, << "B" >>)
KeyC == GroupKind(<< "g" >>, << "C" >>)

\* metav1.APIResourceList: a GroupVersion string and its resources' kinds
APIResourceList(gv, kinds) == [GroupVersion |-> gv, Kinds |-> kinds]

GVg == << "g", "/", "v", "1" >>
GVgh == << "g", ".", "h", "/", "v", "1" >>
GVcore == << "v", "1" >>
GVbad == << "g", "/", "v", "/", "1" >>

\* what ServerPreferredResources can answer in one poll cycle: an error (with a
\* partial list), or a list
DiscoveryResponses ==
    { [err |-> TRUE, lists |-> << APIResourceList(GVg, << << "A" >> >>) >>],
      [err |-> FALSE, lists |-> << APIResourceList(GVg, << << "A" >> >>) >>],
      [err |-> FALSE, lists |-> << APIResourceList(GVcore, << << "B" >> >>),
                                   APIResourceList(GVg, << << "C" >> >>) >>],
      [err |-> FALSE, lists |-> << APIResourceList(GVg, << << "C" >>, << "A" >> >>),
                                   APIResourceList(GVcore, << << "B" >> >>) >>],
      [err |-> FALSE, lists |-> << APIResourceList(GVbad, << << "A" >> >>),
                                   APIResourceList(GVgh, << << "A" >> >>) >>] }

Methods == {"GET", "PUT", "POST", "DELETE", "OPTIONS", "HEAD", "PATCH"}

\* spec.Ref: none, "#/definitions/<name>", "#/parameters/<name>", or a reference
\* with neither prefix
NoRef == [kind |-> "none", name |-> ""]
DefRef(name) == [kind |-> "definitions", name |-> name]
ParamRef(name) == [kind |-> "parameters", name |-> name]
OtherRef(name) == [kind |-> "responses", name |-> name]

\* *spec.Schema: nil, or a schema with its own reference and its nested schemas
\* (properties, items, allOf)
NilSchema == [nil |-> TRUE, ref |-> NoRef, sub |-> << >>]
Schema(ref, sub) == [nil |-> FALSE, ref |-> ref, sub |-> sub]

\* spec.Parameter: its reference, its schema and, when Items is set, the reference of its items
Parameter(ref, schema) == [ref |-> ref, schema |-> schema, hasItems |-> FALSE, items |-> NoRef]
ParameterOfItems(ref, schema, items) == [ref |-> ref, schema |-> schema, hasItems |-> TRUE, items |-> items]

\* the zero spec.Parameter, which a lookup of a missing name in root.Parameters yields
ZeroParameter == Parameter(NoRef, NilSchema)

\* spec.Response
Response(ref, schema) == [ref |-> ref, schema |-> schema]

\* *spec.Operation: nil, or an operation whose extension is missing, undecodable or a key
NilOp == [present |-> FALSE, ext |-> "missing", gk |-> GroupKind(<< >>, << >>),
          parameters |-> << >>, responses |-> << >>]
OpNoExt == [present |-> TRUE, ext |-> "missing", gk |-> GroupKind(<< >>, << >>),
            parameters |-> << >>, responses |-> << >>]
OpBadExt == [present |-> TRUE, ext |-> "bad", gk |-> GroupKind(<< >>, << >>),
             parameters |-> << >>, responses |-> << >>]
OpFor(gk) == [present |-> TRUE, ext |-> "ok", gk |-> gk, parameters |-> << >>, responses |-> << >>]
OpWith(gk, parameters, responses) ==
    [present |-> TRUE, ext |-> "ok", gk |-> gk, parameters |-> parameters, responses |-> responses]

\* spec.PathItem with the given GET, POST and DELETE operations
PathItem(get, post, delete) ==
    [m \in Methods |-> CASE m = "GET" -> get
                         [] m = "POST" -> post
                         [] m = "DELETE" -> delete
                         [] OTHER -> NilOp]

\* the definitions section of the cluster's document: X holds a Y, Y holds a Y
\* (a list item that refers to its own type), U and Z are plain, G is referred
\* to by nothing and refers to Z
Definitions ==
    [d \in {"X", "Y", "Z", "U", "G"} |->
        CASE d = "X" -> Schema(NoRef, << Schema(DefRef("Y"), << >>) >>)
          [] d = "Y" -> Schema(NoRef, << Schema(DefRef("Y"), << >>) >>)
          [] d = "G" -> Schema(DefRef("Z"), << >>)
          [] OTHER -> Schema(NoRef, << >>)]

\* the shared parameters section: px has the schema Y, pi has items of Z, pp
\* refers to px
Parameters ==
    [n \in {"px", "pi", "pp"} |->
        CASE n = "px" -> Parameter(NoRef, Schema(DefRef("Y"), << >>))
          [] n = "pi" -> ParameterOfItems(NoRef, NilSchema, DefRef("Z"))
          [] n = "pp" -> Parameter(ParamRef("px"), NilSchema)]

\* a parameters section in which pc refers to itself
CyclicParameters ==
    [n \in {"px", "pc"} |->
        CASE n = "px" -> Parameter(NoRef, Schema(DefRef("Y"), << >>))
          [] n = "pc" -> Parameter(ParamRef("pc"), NilSchema)]

\* spec.Swagger as run holds it
NoDoc == [retrieved |-> FALSE, hasPaths |-> FALSE, paths |-> << >>, info |-> "",
          securityDefinitions |-> "", parameters |-> << >>, definitions |-> << >>]
DocOf(paths, parameters) ==
    [retrieved |-> TRUE, hasPaths |-> TRUE, paths |-> paths, info |-> "Kubernetes",
     securityDefinitions |-> "BearerToken", parameters |-> parameters,
     definitions |-> Definitions]
Doc(paths) == DocOf(paths, Parameters)

\* a reference to a shared parameter, as an operation's parameter list holds it
UseParam(name) == Parameter(ParamRef(name), NilSchema)

\* a response whose schema is the definition of the given name
Returns(name) == Response(NoRef, Schema(DefRef(name), << >>))

\* the documents OpenAPISchema can answer with
Docs ==
    { [Doc(<< >>) EXCEPT !.hasPaths = FALSE],
      Doc([p \in {"/a", "/b", "/c"} |->
              CASE p = "/a" -> PathItem(OpWith(KeyAg, << UseParam("px") >>, << Returns("X") >>),
                                        OpWith(KeyAg, << UseParam("px") >>, << >>), NilOp)
                [] p = "/b" -> PathItem(OpWith(KeyB, << >>, << Returns("U") >>), NilOp, OpNoExt)
                [] p = "/c" -> PathItem(OpFor(KeyC), OpBadExt, NilOp)]),
      Doc([p \in {"/ab"} |->
              PathItem(OpWith(KeyAg,
                              << Parameter(NoRef, Schema(NoRef, << Schema(DefRef("Z"), << >>) >>)) >>,
                              << >>),
                       OpFor(KeyB), NilOp)]),
      Doc([p \in {"/c"} |-> PathItem(OpFor(KeyC), NilOp, NilOp)]),
      Doc([p \in {"/a", "/d", "/h"} |->
              CASE p = "/a" -> PathItem(OpWith(KeyAg, << UseParam("pp") >>, << >>), NilOp, OpBadExt)
                [] p = "/d" -> PathItem(OpNoExt, NilOp, OpWith(KeyAg, << UseParam("pi") >>, << >>))
                [] p = "/h" -> PathItem(OpWith(KeyAgh, << UseParam("gone") >>,
                                               << Response(OtherRef("r"), NilSchema) >>),
                                        NilOp, NilOp)]) }

\* a document whose kept operation refers to the parameter that refers to itself
CyclicDoc ==
    DocOf([p \in {"/h"} |-> PathItem(OpWith(KeyAgh, << UseParam("pc") >>, << >>), NilOp, NilOp)],
          CyclicParameters)

-----------------------------------------------------------------------------
(* run: returning, with the deferred stop.                                  *)

Call(op, res) == [op |-> op, res |-> res]

\* a stage of run that returned e (nil or an error)
Stage(name, e) == [name |-> name, ok |-> (e = NoErr), err |-> e]

\* a defer registered before start() would run stop on every return
AfterReturnDeferFirst(isDeferred) == "stop"

\* where run goes on a return statement: to its deferred function when one is registered
AfterReturn(isDeferred) == IF isDeferred THEN "stop" ELSE "done"

\* a deferred function that lets the cleanup error replace the run's error
DeferredErrStopWins(e, stopErr) == IF stopErr # NoErr THEN stopErr ELSE e

\* the deferred function's assignment: if err == nil { err = stopErr }
DeferredErr(e, stopErr) == IF e = NoErr THEN stopErr ELSE e

\* a stage of run fails: return fmt.Errorf(...)
Fail(name, e) ==
    /\ err' = e
    /\ stages' = Append(stages, Stage(name, e))
    /\ pc' = AfterReturn(deferred)

\* the Walker before FilterSpecByPaths makes one
NoWalk == [root |-> NoDoc, alreadyVisited |-> {}, walked |-> << >>, overflow |-> FALSE]

\* the state in which run is entered, but for its flags and its surroundings
InitState ==
    /\ err = NoErr
    /\ deferred = FALSE
    /\ desiredGroupKinds = << >>
    /\ containerID = ""
    /\ calls = << >>
    /\ stages = << >>
    /\ inspectPolls = 0
    /\ copyPolls = 0
    /\ kubeConfig = "none"
    /\ gate = "idle"
    /\ GKfound = << >>
    /\ discLog = << >>
    /\ logs = << >>
    /\ swagger = NoDoc
    /\ keepPaths = << >>
    /\ output = "none"
    /\ ctxDone = FALSE
    /\ restHost = << >>
    /\ walker = NoWalk
    /\ portBindings = << >>

\* the Rancher variant's run is entered; --cluster-port is not one of its flags
InitRun ==
    /\ pc = "flags"
    /\ k3sPort = "6443"
    /\ InitState

\* run with the port flags of RunPortFlags against a Rancher container, whose k3s
\* writes its own server URL
Init == InitRun /\ hostPorts \in RunPortFlags /\ server = K3sServer /\ source \in Sources

\* run: --rancher-dev-image and --rancher-version exclude each other
CheckFlags ==
    /\ pc = "flags"
    /\ \E both \in BOOLEAN :
          IF both
          THEN /\ Fail("flags", Chain(<< "both image flags" >>))
          ELSE /\ pc' = "parse"
               /\ stages' = Append(stages, Stage("flags", NoErr))
               /\ err' = err
    /\ UNCHANGED << deferred, desiredGroupKinds, hostPorts, containerID, calls,
                    inspectPolls, copyPolls, kubeConfig, gate, GKfound, discLog,
                    logs, swagger, keepPaths, output, ctxDone, server, restHost, source, walker, k3sPort, portBindings >>

\* a scan that never counts as empty
NoGroupKindNever(lines) == FALSE

\* parseGroupKind: len(groupKindsMap) == 0 after the scan
NoGroupKind(lines) == ParsedKeys(lines) = {}

\* run: desiredGroupKinds, err := parseGroupKind(cmdFlags.resourcesFile, logger)
ParseGroupKind ==
    /\ pc = "parse"
    /\ LET src == source
       IN IF src.open \in {"openfail", "badstatus"}
          THEN /\ Fail("parse", Chain(<< "failed to split group kind", "failed to get content reader", src.open >>))
               /\ UNCHANGED << desiredGroupKinds, logs >>
          ELSE IF src.open = "readerr"
          THEN /\ Fail("parse", Chain(<< "failed to split group kind", "failed to read file" >>))
               /\ logs' = logs \o ParsedLog(src.lines)
               /\ UNCHANGED desiredGroupKinds
          ELSE IF NoGroupKind(src.lines)
          THEN /\ Fail("parse", Chain(<< "failed to split group kind", "no GroupKind found in file" >>))
               /\ logs' = logs \o ParsedLog(src.lines)
               /\ UNCHANGED desiredGroupKinds
          ELSE /\ desiredGroupKinds' = ParsedMap(src.lines)
               /\ logs' = logs \o ParsedLog(src.lines)
               /\ stages' = Append(stages, Stage("parse", NoErr))
               /\ pc' = "newContainer"
               /\ err' = err
    /\ UNCHANGED << deferred, hostPorts, containerID, calls, inspectPolls, copyPolls,
                    kubeConfig, gate, GKfound, discLog, swagger, keepPaths, output,
                    ctxDone, server, restHost, source, walker, k3sPort, portBindings >>

\* newRancherDockerContainer: default the host ports, reject equal ones
NewRancherDockerContainer ==
    /\ pc = "newContainer"
    /\ LET p == hostPorts[1]
           ps == hostPorts[2]
       IN LET hostPort == IF p = "" THEN "80" ELSE p
              hostPortHTTPS == IF ps = "" THEN "443" ELSE ps
          IN  IF hostPort = hostPortHTTPS
              THEN /\ Fail("newContainer", Chain(<< "failed to create rancher docker container",
                                              "host port and host port https cannot be the same" >>))
                   /\ UNCHANGED hostPorts
              ELSE /\ hostPorts' = << hostPort, hostPortHTTPS >>
                   /\ stages' = Append(stages, Stage("newContainer", NoErr))
                   /\ pc' = "pull"
                   /\ err' = err
    /\ UNCHANGED << deferred, desiredGroupKinds, containerID, calls, inspectPolls,
                    copyPolls, kubeConfig, gate, GKfound, discLog, logs, swagger,
                    keepPaths, output, ctxDone, server, restHost, source, walker, k3sPort, portBindings >>

-----------------------------------------------------------------------------
(* rancherDockerContainer.start: pull, create, start, wait.                 *)

\* run's wrapping of an error returned by start()
StartErr(e) == Chain(<< "failed to start rancher container" >>) \o e

\* a start that goes on to the next call whatever the last one returned
ProceedsAlways(res) == TRUE

\* start: if err := ...; err != nil { return err }
Proceeds(res) == res = "ok"

\* start: pullRancherImage, and return its error
PullRancherImage ==
    /\ pc = "pull"
    /\ \E res \in {"ok", "err", "streamerr"} :
          /\ calls' = Append(calls, Call("pull", res))
          /\ IF Proceeds(res)
             THEN /\ pc' = "create"
                  /\ UNCHANGED << err, stages >>
             ELSE Fail("start", StartErr(Chain(<< "failed to pull image", res >>)))
    /\ UNCHANGED << deferred, desiredGroupKinds, hostPorts, containerID, inspectPolls,
                    copyPolls, kubeConfig, gate, GKfound, discLog, logs, swagger,
                    keepPaths, output, ctxDone, server, restHost, source, walker, k3sPort, portBindings >>

\* bindings that put the Kubernetes API port on the host's HTTPS port
PortBindingsAPIOnHTTPS(ports) == [http |-> ports[1], https |-> ports[2], k3s |-> ports[2]]

\* createRancherContainer: the host port each container port is bound to
PortBindings(ports) == [http |-> ports[1], https |-> ports[2], k3s |-> "6443"]

\* start: createRancherContainer, and return its error
CreateRancherContainer ==
    /\ pc = "create"
    /\ \E res \in {"ok", "err"} :
          /\ calls' = Append(calls, Call("create", res))
          /\ portBindings' = Append(portBindings, PortBindings(hostPorts))
          /\ IF Proceeds(res)
             THEN /\ containerID' = "cid"
                  /\ pc' = "startC"
                  /\ UNCHANGED << err, stages >>
             ELSE /\ Fail("start", StartErr(Chain(<< "ContainerCreate error" >>)))
                  /\ UNCHANGED containerID
    /\ UNCHANGED << deferred, desiredGroupKinds, hostPorts, inspectPolls, copyPolls,
                    kubeConfig, gate, GKfound, discLog, logs, swagger, keepPaths, output, ctxDone, server, restHost, source, walker, k3sPort >>

\* start: startRancherContainer, and return its error
StartRancherContainer ==
    /\ pc = "startC"
    /\ \E res \in {"ok", "err"} :
          /\ calls' = Append(calls, Call("start", res))
          /\ IF Proceeds(res)
             THEN /\ pc' = "waitReady"
                  /\ UNCHANGED << err, stages >>
             ELSE Fail("start", StartErr(Chain(<< "failed to start rancher container", res >>)))
    /\ UNCHANGED << deferred, desiredGroupKinds, hostPorts, containerID, inspectPolls,
                    copyPolls, kubeConfig, gate, GKfound, discLog, logs, swagger,
                    keepPaths, output, ctxDone, server, restHost, source, walker, k3sPort, portBindings >>

\* start returned nil: run registers the deferred stop and goes on
StartReturnsOk ==
    /\ stages' = Append(stages, Stage("start", NoErr))
    /\ deferred' = TRUE
    /\ pc' = "kubeconfig"
    /\ err' = err

\* a poll that takes any answered inspection for readiness
StateRunningAlways(res) == TRUE

\* pollFunc: containerJSON.State.Running
StateRunning(res) == res = "running"

\* a poll that takes a failed inspection for a container not yet running
InspectErrRetried(res) == FALSE

\* pollFunc: ContainerInspect returned an error, which pollFunc returns to the poll
InspectErr(res) == res = "err"

\* waitForRancherContainer: one call of pollFunc by wait.PollUntilContextTimeout
InspectPoll ==
    /\ pc = "waitReady"
    /\ inspectPolls < MaxInspectPolls
    /\ inspectPolls' = inspectPolls + 1
    /\ \E res \in {"running", "notrunning", "err"} :
          /\ calls' = Append(calls, Call("inspect", res))
          /\ CASE InspectErr(res) ->
                    /\ Fail("start", StartErr(Chain(<< "failed to wait for rancher container",
                                                 "failed to inspect container" >>)))
                    /\ UNCHANGED deferred
               [] res # "err" /\ StateRunning(res) -> StartReturnsOk
               [] OTHER -> UNCHANGED << pc, err, stages, deferred >>
    /\ UNCHANGED << desiredGroupKinds, hostPorts, containerID, copyPolls, kubeConfig,
                    gate, GKfound, discLog, logs, swagger, keepPaths, output, ctxDone, server, restHost, source, walker, k3sPort, portBindings >>

\* waitForRancherContainer: the poll's deadline passes after a condition call
InspectTimeout ==
    /\ pc = "waitReady"
    /\ inspectPolls >= 1
    /\ Fail("start", StartErr(Chain(<< "failed to wait for rancher container",
                                 "context deadline exceeded" >>)))
    /\ UNCHANGED << deferred, desiredGroupKinds, hostPorts, containerID, calls,
                    inspectPolls, copyPolls, kubeConfig, gate, GKfound, discLog,
                    logs, swagger, keepPaths, output, ctxDone, server, restHost, source, walker, k3sPort, portBindings >>

-----------------------------------------------------------------------------
(* getKubeConfigFromContainer and newKubeClient.                            *)

\* run's wrapping of an error returned by getKubeConfigFromContainer
KubeConfigErr(e) == Chain(<< "failed to get kubeconfig from container" >>) \o e

\* a poll that retries after every failed copy
IsNotFoundAnyError(res) == res # "ok"

\* errdefs.IsNotFound(err) for the error of a copy call
IsNotFound(res) == res = "notfound"

\* the error getKubeConfigFromContainer returns when its poll returned an error
CopyPollErr == Chain(<< "failed to get kubeconfig from container after 10m" >>)

\* one call of configFunc by wait.PollUntilContextTimeout, then, when the poll
\* succeeded, the read of the archive: tarReader.Next() and io.ReadAll
CopyPoll ==
    /\ pc = "kubeconfig"
    /\ copyPolls < MaxCopyPolls
    /\ copyPolls' = copyPolls + 1
    /\ \E res \in {"ok", "notfound", "err"} :
          IF res = "ok"
          THEN \E tar \in {"eof", "tarerr", "readerr", "empty", "data"} :
                  /\ calls' = calls \o << Call("copy", res), Call("readArchive", tar) >>
                  /\ CASE tar = "eof" ->
                            /\ Fail("kubeconfig", KubeConfigErr(Chain(<< "k3s kubeConfig is empty" >>)))
                            /\ UNCHANGED kubeConfig
                       [] tar = "tarerr" ->
                            /\ Fail("kubeconfig", KubeConfigErr(Chain(<< "failed to untar k3s kubeconfig" >>)))
                            /\ UNCHANGED kubeConfig
                       [] tar = "readerr" ->
                            /\ Fail("kubeconfig", KubeConfigErr(Chain(<< "failed to read k3s kubeconfig" >>)))
                            /\ UNCHANGED kubeConfig
                       [] OTHER ->
                            /\ kubeConfig' = tar
                            /\ stages' = Append(stages, Stage("kubeconfig", NoErr))
                            /\ pc' = "newKubeClient"
                            /\ err' = err
          ELSE /\ calls' = Append(calls, Call("copy", res))
               /\ IF IsNotFound(res)
                  THEN UNCHANGED << pc, err, stages, kubeConfig >>
                  ELSE /\ Fail("kubeconfig", KubeConfigErr(CopyPollErr))
                       /\ UNCHANGED kubeConfig
    /\ UNCHANGED << deferred, desiredGroupKinds, hostPorts, containerID, inspectPolls,
                    gate, GKfound, discLog, logs, swagger, keepPaths, output, ctxDone, server, restHost, source, walker, k3sPort, portBindings >>

\* a poll without a deadline
CopyNeverTimesOut == FALSE /\ UNCHANGED vars

\* the kubeconfig poll's deadline passes after a condition call
CopyTimeout ==
    /\ pc = "kubeconfig"
    /\ copyPolls >= 1
    /\ Fail("kubeconfig", KubeConfigErr(CopyPollErr))
    /\ UNCHANGED << deferred, desiredGroupKinds, hostPorts, containerID, calls,
                    inspectPolls, copyPolls, kubeConfig, gate, GKfound, discLog,
                    logs, swagger, keepPaths, output, ctxDone, server, restHost, source, walker, k3sPort, portBindings >>

\* strings.LastIndex(s, c), 0 when c does not occur
LastIndexOf(s, c) ==
    IF \E i \in 1..Len(s) : s[i] = c
    THEN CHOOSE i \in 1..Len(s) : s[i] = c /\ \A j \in (i + 1)..Len(s) : s[j] # c
    ELSE 0

\* url.Parse of a URL of the form scheme://authority[/path]
URLParse(u) ==
    LET c == IndexOf(u, ":")
        rest == SubSeq(u, c + 3, Len(u))
        sl == IndexOf(rest, "/")
    IN  [Scheme |-> SubSeq(u, 1, c - 1),
         Host |-> IF sl = 0 THEN rest ELSE SubSeq(rest, 1, sl - 1),
         Path |-> IF sl = 0 THEN << >> ELSE SubSeq(rest, sl, Len(rest))]

\* (*url.URL).String for such a URL
URLString(url) == url.Scheme \o << ":", "/", "/" >> \o url.Host \o url.Path

\* net.SplitHostPort: the port follows the last colon; a host in brackets loses them
SplitHostPort(hostport) ==
    LET i == LastIndexOf(hostport, ":")
        end == IndexOf(hostport, "]")
    IN  IF i = 0 THEN [ok |-> FALSE, err |-> "missing port in address"]
        ELSE IF Head(hostport) = "["
        THEN IF end = 0 THEN [ok |-> FALSE, err |-> "missing ']' in address"]
             ELSE IF end = Len(hostport) THEN [ok |-> FALSE, err |-> "missing port in address"]
             ELSE IF end + 1 # i THEN [ok |-> FALSE, err |-> "too many colons in address"]
             ELSE [ok |-> TRUE, host |-> SubSeq(hostport, 2, end - 1),
                   port |-> SubSeq(hostport, i + 1, Len(hostport))]
        ELSE IF CountOf(hostport, ":") > 1 THEN [ok |-> FALSE, err |-> "too many colons in address"]
        ELSE [ok |-> TRUE, host |-> SubSeq(hostport, 1, i - 1),
              port |-> SubSeq(hostport, i + 1, Len(hostport))]

\* a join that puts the loopback address in front of the port
JoinLoopbackPort(host, port) == << "1", "2", "7", ".", "0", ".", "0", ".", "1", ":" >> \o port

\* net.JoinHostPort: a host with a colon is put in brackets
JoinHostPort(host, port) ==
    IF CountOf(host, ":") > 0 \/ CountOf(host, "%") > 0
    THEN << "[" >> \o host \o << "]", ":" >> \o port
    ELSE host \o << ":" >> \o port

\* defaultK3sPort
DefaultK3sPort == << "6", "4", "4", "3" >>

\* newKubeClient: restCfg.Host with its port replaced by defaultK3sPort
RewriteHost(u) ==
    LET k3sURL == URLParse(u)
        hp == SplitHostPort(k3sURL.Host)
    IN  IF ~hp.ok THEN [ok |-> FALSE, err |-> "failed to parse cluster host"]
        ELSE [ok |-> TRUE,
              host |-> URLString([k3sURL EXCEPT !.Host = JoinHostPort(hp.host, DefaultK3sPort)])]

\* run: kubeClient, err := newKubeClient(kubeConfig)
NewKubeClient ==
    /\ pc = "newKubeClient"
    /\ \E res \in (IF kubeConfig = "empty" THEN {"restcfgerr"}
                   ELSE {"ok", "restcfgerr", "clientseterr"}) :
          IF res = "restcfgerr"
          THEN /\ Fail("newKubeClient", Chain(<< "failed to create kube client", "failed to create restconfig" >>))
               /\ UNCHANGED restHost
          ELSE IF ~RewriteHost(server).ok
          THEN /\ Fail("newKubeClient", Chain(<< "failed to create kube client", RewriteHost(server).err >>))
               /\ UNCHANGED restHost
          ELSE IF res = "clientseterr"
          THEN /\ Fail("newKubeClient", Chain(<< "failed to create kube client", "failed to create new clientset" >>))
               /\ UNCHANGED restHost
          ELSE /\ restHost' = RewriteHost(server).host
               /\ stages' = Append(stages, Stage("newKubeClient", NoErr))
               /\ pc' = "gateEnter"
               /\ err' = err
    /\ UNCHANGED << deferred, desiredGroupKinds, hostPorts, containerID, calls,
                    inspectPolls, copyPolls, kubeConfig, gate, GKfound, discLog,
                    logs, swagger, keepPaths, output, ctxDone, server, source, walker, k3sPort, portBindings >>

-----------------------------------------------------------------------------
(* waitForDesiredResources: the discovery gate.                             *)

\* schema.ParseGroupVersion: the group of "group/version" or of "version"
ParseGroupVersion(gv) ==
    IF gv = << >> \/ gv = << "/" >> THEN [ok |-> TRUE, Group |-> << >>]
    ELSE IF CountOf(gv, "/") = 0 THEN [ok |-> TRUE, Group |-> << >>]
    ELSE IF CountOf(gv, "/") = 1
         THEN [ok |-> TRUE, Group |-> SubSeq(gv, 1, IndexOf(gv, "/") - 1)]
         ELSE [ok |-> FALSE, Group |-> << >>]

\* every discoveredGK the two loops over apiResourceList build
Discovered(lists) ==
    UNION { IF ParseGroupVersion(lists[i].GroupVersion).ok
            THEN { GroupKind(ParseGroupVersion(lists[i].GroupVersion).Group, lists[i].Kinds[j]) :
                      j \in 1..Len(lists[i].Kinds) }
            ELSE {} : i \in 1..Len(lists) }

\* a found map rebuilt from each poll's answer alone
MarkFoundThisPollOnly(found, discovered) == [gk \in DOMAIN found |-> gk \in discovered]

\* GKfound after the loops: a key of the map that was discovered becomes true
MarkFound(found, discovered) ==
    [gk \in DOMAIN found |-> found[gk] \/ gk \in discovered]

\* a check that is satisfied by any found key
SomeFound(found) == \E gk \in DOMAIN found : found[gk]

\* allFound: no value of the map is false
AllFound(found) == \A gk \in DOMAIN found : found[gk]

\* a condition that returns the discovery error to the poll
OnDiscoveryErrorFatal == [done |-> FALSE, fatal |-> TRUE]

\* waitFunc on a failed discovery call: return false, nil
OnDiscoveryError == [done |-> FALSE, fatal |-> FALSE]

\* the keys formatNotFoundGroupKinds walks: those whose value is false
NotFoundKeys(found) == {gk \in DOMAIN found : ~found[gk]}

\* the orders in which a map's range loop can visit the keys
Orders(S) == {o \in [1..Cardinality(S) -> S] : \A i, j \in 1..Cardinality(S) : i # j => o[i] # o[j]}

\* the names of the keys of a sequence: gk.String() of each
NamesOf(gks) == [i \in 1..Len(gks) |-> GKString(gks[i])]

\* formatGroupKinds: the names of all keys of the map in the order visited, or None
FormatGroupKinds(found, order) ==
    IF Len(order) = 0 THEN << << "N", "o", "n", "e" >> >> ELSE NamesOf(order)

\* formatNotFoundGroupKinds: the names of the keys whose value is false, in the
\* order the range loop visits the map, or None when there is none
FormatNotFoundGroupKinds(found, order) ==
    LET Missing(gk) == ~found[gk]
        notFound == SelectSeq(order, Missing)
    IN  IF Len(notFound) = 0 THEN << << "N", "o", "n", "e" >> >> ELSE NamesOf(notFound)

\* run's wrapping of the gate's error
GateErr(e) == Chain(<< "failed to wait for desired resources", "not all GroupKinds discoverable after 5m" >>) \o e

\* a map made without the desired keys
NewGKfoundEmpty(desired) == << >>

\* the copy of the key set with which waitForDesiredResources starts
NewGKfound(desired) == [gk \in DOMAIN desired |-> FALSE]

\* a run that goes from the client straight to the document
WaitForDesiredResourcesSkipped ==
    /\ pc = "gateEnter"
    /\ pc' = "getSwagger"
    /\ UNCHANGED << err, deferred, desiredGroupKinds, hostPorts, containerID, calls,
                    stages, inspectPolls, copyPolls, kubeConfig, gate, GKfound,
                    discLog, logs, swagger, keepPaths, output, ctxDone, server, restHost, source, walker, k3sPort, portBindings >>

\* waitForDesiredResources is entered: GKfound is made from the desired keys
WaitForDesiredResourcesEnter ==
    /\ pc = "gateEnter"
    /\ GKfound' = NewGKfound(desiredGroupKinds)
    /\ gate' = "polling"
    /\ pc' = "discovery"
    /\ UNCHANGED << err, deferred, desiredGroupKinds, hostPorts, containerID, calls,
                    stages, inspectPolls, copyPolls, kubeConfig, discLog, logs,
                    swagger, keepPaths, output, ctxDone, server, restHost, source, walker, k3sPort, portBindings >>

\* a gate that marks the keys in the map of its caller
CallerMapShared(desired, found) == found

\* waitFunc sets GKfound[discoveredGK] = true in the map that
\* waitForDesiredResources made itself: desiredResources, the map of its caller,
\* is only read
CallerMap(desired, found) == desired

\* one call of waitFunc by wait.PollUntilContextTimeout
DiscoveryPoll ==
    /\ pc = "discovery"
    /\ Len(discLog) < MaxDiscoveryPolls
    /\ \E resp \in DiscoveryResponses :
          LET found == IF resp.err THEN GKfound ELSE MarkFound(GKfound, Discovered(resp.lists))
              result == IF resp.err THEN OnDiscoveryError
                        ELSE [done |-> AllFound(found), fatal |-> FALSE]
          IN  /\ calls' = Append(calls, Call("discovery", IF resp.err THEN "err" ELSE "ok"))
              /\ discLog' = Append(discLog, resp)
              /\ GKfound' = found
              /\ desiredGroupKinds' = CallerMap(desiredGroupKinds, found)
              /\ IF result.fatal
                 THEN /\ gate' = "error"
                      /\ Fail("discovery", GateErr(Chain(<< "discovery failed" >>)))
                 ELSE IF result.done
                 THEN /\ gate' = "ok"
                      /\ stages' = Append(stages, Stage("discovery", NoErr))
                      /\ pc' = "getSwagger"
                      /\ err' = err
                 ELSE UNCHANGED << gate, stages, pc, err >>
    /\ UNCHANGED << deferred, hostPorts, containerID, inspectPolls,
                    copyPolls, kubeConfig, logs, swagger, keepPaths, output, ctxDone, server, restHost, source, walker, k3sPort, portBindings >>

\* the gate's deadline passes after a condition call: log the missing keys, return the error
DiscoveryTimeout ==
    /\ pc = "discovery"
    /\ Len(discLog) >= 1
    /\ gate' = "timeout"
    /\ \E order \in Orders(DOMAIN GKfound) :
          logs' = Append(logs, [msg |-> "Timed out waiting for all GroupKinds. Still missing",
                                names |-> FormatNotFoundGroupKinds(GKfound, order)])
    /\ Fail("discovery", GateErr(Chain(<< "context deadline exceeded" >>)))
    /\ UNCHANGED << deferred, desiredGroupKinds, hostPorts, containerID, calls,
                    inspectPolls, copyPolls, kubeConfig, GKfound, discLog, swagger,
                    keepPaths, output, ctxDone, server, restHost, source, walker, k3sPort, portBindings >>

-----------------------------------------------------------------------------
(* getSwagger, getDesiredPaths, FilterSpecByPaths, writeDoc.                *)

\* run: swagger, err := kubeClient.getSwagger()
GetSwagger ==
    /\ pc = "getSwagger"
    /\ \E res \in {"ok", "err"} :
          /\ calls' = Append(calls, Call("openapi", res))
          /\ IF res = "err"
             THEN /\ Fail("getSwagger", Chain(<< "failed to get swagger from cluster" >>))
                  /\ UNCHANGED swagger
             ELSE /\ \E doc \in Docs : swagger' = doc
                  /\ stages' = Append(stages, Stage("getSwagger", NoErr))
                  /\ pc' = "desiredPaths"
                  /\ err' = err
    /\ UNCHANGED << deferred, desiredGroupKinds, hostPorts, containerID, inspectPolls,
                    copyPolls, kubeConfig, gate, GKfound, discLog, logs, keepPaths, output, ctxDone, server, restHost, source, walker, k3sPort, portBindings >>

\* addGKFromOp: what one operation adds to gks.  Extensions.GetObject leaves the
\* zero GroupKind and returns nil when the extension is absent
AddGKFromOp(op) ==
    IF ~op.present THEN {}
    ELSE IF op.ext = "bad" THEN {}
    ELSE IF op.ext = "missing" THEN {GroupKind(<< >>, << >>)}
    ELSE {op.gk}

\* groupKindsFromPath: the keys of the seven method slots
GroupKindsFromPath(item) == UNION {AddGKFromOp(item[m]) : m \in Methods}

\* a match that looks at the GET operation alone
DesiredOfGetOnly(item, desired) == AddGKFromOp(item["GET"]) \cap DOMAIN desired

\* the keys of a path that are keys of the desired map
DesiredOf(item, desired) == GroupKindsFromPath(item) \cap DOMAIN desired

\* a map made anew from the keys that were matched
SetFoundOnly(desired, picked) == [gk \in picked |-> TRUE]

\* getDesiredPaths: desiredGroupKinds[gks[i]] = true for the key each kept path matched
SetFound(desired, picked) == [gk \in DOMAIN desired |-> desired[gk] \/ gk \in picked]

\* a run that takes note of the error of getDesiredPaths and goes on to filter
FailDesiredPathsGoesOn(e) ==
    /\ err' = e
    /\ stages' = Append(stages, Stage("desiredPaths", e))
    /\ pc' = "filter"

\* run: if err != nil { return err } after getDesiredPaths
FailDesiredPaths(e) == Fail("desiredPaths", e)

\* a check of the flags that never finds one unset
AnyNotFoundNever(marked) == FALSE

\* getDesiredPaths: the loop over desiredGroupKinds meets a key whose flag is false
AnyNotFound(marked) == \E gk \in DOMAIN marked : ~marked[gk]

\* run: keepPaths, err := getDesiredPaths(swagger, desiredGroupKinds, logger).
\* order is the order the paths are visited in, pick[p] the first desired key that
\* the loop over gks (a slice in map order) meets for path p
GetDesiredPaths ==
    /\ pc = "desiredPaths"
    /\ IF ~swagger.hasPaths
       THEN /\ FailDesiredPaths(Chain(<< "cluster's swagger doc has no paths set" >>))
            /\ UNCHANGED << desiredGroupKinds, keepPaths >>
       ELSE LET paths == swagger.paths
                IsKept(p) == DesiredOf(paths[p], desiredGroupKinds) # {}
                kept == {p \in DOMAIN paths : IsKept(p)}
            IN  \E order \in Orders(DOMAIN paths) :
                \E pick \in [kept -> DOMAIN desiredGroupKinds] :
                    /\ \A p \in kept : pick[p] \in DesiredOf(paths[p], desiredGroupKinds)
                    /\ LET marked == SetFound(desiredGroupKinds, {pick[p] : p \in kept})
                       IN  /\ desiredGroupKinds' = marked
                           /\ IF AnyNotFound(marked)
                              THEN /\ \E gk \in {k \in DOMAIN marked : ~marked[k]} :
                                         FailDesiredPaths(Chain(<< "failed to find path for GroupKind" >>) \o << GKString(gk) >>)
                                   /\ UNCHANGED keepPaths
                              ELSE /\ keepPaths' = SelectSeq(order, IsKept)
                                   /\ stages' = Append(stages, Stage("desiredPaths", NoErr))
                                   /\ pc' = "filter"
                                   /\ err' = err
    /\ UNCHANGED << deferred, hostPorts, containerID, calls, inspectPolls, copyPolls,
                    kubeConfig, gate, GKfound, discLog, logs, swagger, output, ctxDone, server, restHost, source, walker, k3sPort, portBindings >>

\* what the walk still has to visit: a reference to hand to walkRefCallback, a
\* schema, a parameter or a response, each with the depth of the call that visits it
RefItem(ref, depth) == [kind |-> "ref", val |-> ref, depth |-> depth]
SchemaItem(schema, depth) == [kind |-> "schema", val |-> schema, depth |-> depth]
ParamItem(param, depth) == [kind |-> "param", val |-> param, depth |-> depth]
ResponseItem(resp, depth) == [kind |-> "response", val |-> resp, depth |-> depth]

\* the calls made for one parameter: walkRefCallback(&param.Ref),
\* walkSchema(param.Schema) and, if param.Items != nil, walkRefCallback(&param.Items.Ref)
ItemsOfParam(param, depth) ==
    << RefItem(param.ref, depth), SchemaItem(param.schema, depth) >>
        \o (IF param.hasItems THEN << RefItem(param.items, depth) >> ELSE << >>)

\* walkSchema: the schema's own reference, then its nested schemas
WalkSchema(schema, depth) ==
    IF schema.nil THEN << >>
    ELSE << RefItem(schema.ref, depth) >>
             \o [i \in 1..Len(schema.sub) |-> SchemaItem(schema.sub[i], depth)]

\* walkResponse: the response's reference, then its schema
WalkResponse(resp, depth) == << RefItem(resp.ref, depth), SchemaItem(resp.schema, depth) >>

\* the callback as it is upstream: references to shared parameters are passed over
WalkRefCallbackUnpatched(ref, depth, w, root) ==
    IF ref.kind = "definitions" /\ ref.name \in DOMAIN root.definitions
          /\ ref \notin w.alreadyVisited
    THEN [push |-> << SchemaItem(root.definitions[ref.name], depth + 1) >>,
          alreadyVisited |-> w.alreadyVisited \cup {ref},
          walked |-> Append(w.walked, ref)]
    ELSE [push |-> << >>, alreadyVisited |-> w.alreadyVisited, walked |-> w.walked]

\* walkRefCallback as patched: a reference to a shared parameter is resolved in
\* root.Parameters and the parameter walked; a reference to a definition that is
\* found and not yet visited is recorded in alreadyVisited and its schema walked
WalkRefCallback(ref, depth, w, root) ==
    IF ref.kind = "none"
    THEN [push |-> << >>, alreadyVisited |-> w.alreadyVisited, walked |-> w.walked]
    ELSE IF ref.kind = "parameters"
    THEN LET param == IF ref.name \in DOMAIN root.parameters
                      THEN root.parameters[ref.name] ELSE ZeroParameter
         IN  [push |-> ItemsOfParam(param, depth + 1),
              alreadyVisited |-> w.alreadyVisited,
              walked |-> Append(w.walked, ref)]
    ELSE IF ref.kind = "definitions" /\ ref.name \in DOMAIN root.definitions
               /\ ref \notin w.alreadyVisited
    THEN [push |-> << SchemaItem(root.definitions[ref.name], depth + 1) >>,
          alreadyVisited |-> w.alreadyVisited \cup {ref},
          walked |-> Append(w.walked, ref)]
    ELSE [push |-> << >>, alreadyVisited |-> w.alreadyVisited, walked |-> w.walked]

\* the depth of nested calls at which the goroutine's stack is used up, scaled down
MaxWalkDepth == 10

\* the walk from the calls still to make (stack, the next one first): each call
\* makes its own calls before the next one is made; a call nested deeper than the
\* stack allows ends the walk, and the program, with a stack overflow
RECURSIVE Walk(_, _, _)
Walk(stack, w, root) ==
    IF stack = << >> THEN w
    ELSE LET it == Head(stack)
         IN  IF it.depth > MaxWalkDepth THEN [w EXCEPT !.overflow = TRUE]
             ELSE CASE it.kind = "ref" ->
                          LET r == WalkRefCallback(it.val, it.depth, w, root)
                          IN  Walk(r.push \o Tail(stack),
                                   [w EXCEPT !.alreadyVisited = r.alreadyVisited,
                                             !.walked = r.walked],
                                   root)
                    [] it.kind = "schema" ->
                          Walk(WalkSchema(it.val, it.depth + 1) \o Tail(stack), w, root)
                    [] it.kind = "param" ->
                          Walk(ItemsOfParam(it.val, it.depth + 1) \o Tail(stack), w, root)
                    [] it.kind = "response" ->
                          Walk(WalkResponse(it.val, it.depth + 1) \o Tail(stack), w, root)

\* the seven method slots in the order the walk visits them
MethodOrder == << "DELETE", "GET", "HEAD", "OPTIONS", "PATCH", "POST", "PUT" >>

\* walkOperation: the operation's parameters, then its responses
WalkOperation(op) ==
    IF ~op.present THEN << >>
    ELSE [i \in 1..Len(op.parameters) |-> ParamItem(op.parameters[i], 2)]
            \o [i \in 1..Len(op.responses) |-> ResponseItem(op.responses[i], 2)]

\* Walker.Start: every operation of every path of the document
RECURSIVE WalkPaths(_, _)
WalkPaths(paths, names) ==
    IF names = << >> THEN << >>
    ELSE LET item == paths[Head(names)]
             RECURSIVE OpsFrom(_)
             OpsFrom(k) == IF k > Len(MethodOrder) THEN << >>
                           ELSE WalkOperation(item[MethodOrder[k]]) \o OpsFrom(k + 1)
         IN  OpsFrom(1) \o WalkPaths(paths, Tail(names))

\* a document rebuilt from the kept paths and definitions alone
FilteredDocBare(doc, kept, used) ==
    [NoDoc EXCEPT !.retrieved = TRUE, !.hasPaths = TRUE,
                  !.paths = [p \in kept |-> doc.paths[p]],
                  !.definitions = [d \in used |-> doc.definitions[d]]]

\* the document with its paths replaced by the kept ones and its definitions by
\* the reached ones
FilteredDoc(doc, kept, used) ==
    [doc EXCEPT !.paths = [p \in kept |-> doc.paths[p]],
                !.definitions = [d \in used |-> doc.definitions[d]]]

\* run: aggregator.FilterSpecByPaths(swagger, keepPaths): the other paths are
\* deleted, the references of the kept ones are walked and the definitions that
\* the walk did not reach are dropped
FilterSpecByPaths ==
    /\ pc = "filter"
    /\ LET kept == {keepPaths[i] : i \in 1..Len(keepPaths)}
           w == Walk(WalkPaths(swagger.paths, keepPaths), [NoWalk EXCEPT !.root = swagger], swagger)
           used == {d \in DOMAIN swagger.definitions : DefRef(d) \in w.alreadyVisited}
       IN  /\ walker' = w
           /\ IF w.overflow
              THEN /\ pc' = "crashed"
                   /\ UNCHANGED << swagger, stages >>
              ELSE /\ swagger' = FilteredDoc(swagger, kept, used)
                   /\ stages' = Append(stages, Stage("filter", NoErr))
                   /\ pc' = "write"
    /\ UNCHANGED << err, deferred, desiredGroupKinds, hostPorts, containerID, calls,
                    inspectPolls, copyPolls, kubeConfig, gate, GKfound, discLog, logs,
                    keepPaths, output, ctxDone, server, restHost, source, k3sPort, portBindings >>

\* run: err = writeDoc(swagger, logger), then return nil
WriteDoc ==
    /\ pc = "write"
    /\ \E outputFile \in {"", "out.json"}, res \in {"ok", "marshalerr", "writeerr"} :
          IF res = "ok"
          THEN /\ output' = IF outputFile = "" THEN "stdout" ELSE "file"
               /\ stages' = Append(stages, Stage("write", NoErr))
               /\ err' = NoErr
               /\ pc' = AfterReturn(deferred)
          ELSE /\ output' = IF res = "writeerr" THEN "failed" ELSE "none"
               /\ Fail("write", Chain(<< "failed to write swagger", res >>))
    /\ UNCHANGED << deferred, desiredGroupKinds, hostPorts, containerID, calls,
                    inspectPolls, copyPolls, kubeConfig, gate, GKfound, discLog, logs,
                    swagger, keepPaths, ctxDone, server, restHost, source, walker, k3sPort, portBindings >>

-----------------------------------------------------------------------------
(* The deferred function of run: rancherContainer.stop().                   *)

\* the deadline run's code puts on the context of each call: requestTimeout or
\* waitInterval through context.WithTimeout, "none" where r.ctx is passed as it is,
\* "client" where the call takes no context and is left to the client's own setting
CallTimeout(op) ==
    CASE op \in {"pull", "create", "start", "copy", "readArchive"} -> "requestTimeout"
      [] op = "inspect" -> "waitInterval"
      [] op \in {"stop", "remove"} -> "none"
      [] op \in {"discovery", "openapi"} -> "client"

\* how a call made by stop ends when the runtime answers it: a cancelled context
\* fails it at once
StopOutcomes == IF ctxDone THEN {"err"} ELSE {"ok", "err"}

\* stop: ContainerStop, then ContainerRemove if the stop call succeeded; the
\* deferred function keeps run's error unless it is nil
Stop ==
    /\ pc = "stop"
    /\ \E s \in StopOutcomes, r \in StopOutcomes :
          LET stopErr == IF s = "err" THEN Chain(<< "failed to stop container" >>)
                         ELSE IF r = "err" THEN Chain(<< "failed to remove container" >>)
                         ELSE NoErr
          IN  /\ s = "err" => r = "err"
              /\ calls' = IF s = "err" THEN Append(calls, Call("stop", s))
                          ELSE calls \o << Call("stop", s), Call("remove", r) >>
              /\ err' = DeferredErr(err, stopErr)
              /\ stages' = Append(stages, Stage("stop", stopErr))
    /\ pc' = "done"
    /\ UNCHANGED << deferred, desiredGroupKinds, hostPorts, containerID, inspectPolls,
                    copyPolls, kubeConfig, gate, GKfound, discLog, logs, swagger,
                    keepPaths, output, ctxDone, server, restHost, source, walker, k3sPort, portBindings >>

\* stop against a runtime that never answers: ContainerStop, or ContainerRemove
\* after it, is given r.ctx as it is, so nothing ends the call and run stays in it.
\* This step is taken only in HangSpec
StopHangs ==
    /\ pc = "stop"
    /\ ~ctxDone
    /\ \E op \in {"stop", "remove"} :
          /\ CallTimeout(op) = "none"
          /\ calls' = IF op = "stop" THEN Append(calls, Call("stop", "hang"))
                      ELSE calls \o << Call("stop", "ok"), Call("remove", "hang") >>
    /\ pc' = "hung"
    /\ UNCHANGED << err, stages, deferred, desiredGroupKinds, hostPorts, containerID,
                    inspectPolls, copyPolls, kubeConfig, gate, GKfound, discLog, logs,
                    swagger, keepPaths, output, ctxDone, server, restHost, source, walker, k3sPort, portBindings >>

-----------------------------------------------------------------------------
(* The polls under a context that their caller cancels.  run itself passes  *)
(* context.Background(), which is never cancelled: these steps are taken    *)
(* only in CancelSpec.                                                      *)

\* waitForRancherContainer: the poll returns ctx.Err(), wrapped with %w
CancelInspect ==
    /\ pc = "waitReady"
    /\ ctxDone' = TRUE
    /\ Fail("start", StartErr(Chain(<< "failed to wait for rancher container",
                                 "context canceled" >>)))
    /\ UNCHANGED << deferred, desiredGroupKinds, hostPorts, containerID, calls,
                    inspectPolls, copyPolls, kubeConfig, gate, GKfound, discLog,
                    logs, swagger, keepPaths, output, server, restHost, source, walker, k3sPort, portBindings >>

\* getKubeConfigFromContainer: the poll's error is dropped for the fixed message
CancelCopy ==
    /\ pc = "kubeconfig"
    /\ ctxDone' = TRUE
    /\ Fail("kubeconfig", KubeConfigErr(CopyPollErr))
    /\ UNCHANGED << deferred, desiredGroupKinds, hostPorts, containerID, calls,
                    inspectPolls, copyPolls, kubeConfig, gate, GKfound, discLog,
                    logs, swagger, keepPaths, output, server, restHost, source, walker, k3sPort, portBindings >>

\* waitForDesiredResources: the missing keys are logged, ctx.Err() is wrapped with %w
CancelDiscovery ==
    /\ pc = "discovery"
    /\ ctxDone' = TRUE
    /\ gate' = "canceled"
    /\ \E order \in Orders(DOMAIN GKfound) :
          logs' = Append(logs, [msg |-> "Timed out waiting for all GroupKinds. Still missing",
                                names |-> FormatNotFoundGroupKinds(GKfound, order)])
    /\ Fail("discovery", GateErr(Chain(<< "context canceled" >>)))
    /\ UNCHANGED << deferred, desiredGroupKinds, hostPorts, containerID, calls,
                    inspectPolls, copyPolls, kubeConfig, GKfound, discLog, swagger,
                    keepPaths, output, server, restHost, source, walker, k3sPort, portBindings >>

Next ==
    \/ CheckFlags
    \/ ParseGroupKind
    \/ NewRancherDockerContainer
    \/ PullRancherImage
    \/ CreateRancherContainer
    \/ StartRancherContainer
    \/ InspectPoll
    \/ InspectTimeout
    \/ CopyPoll
    \/ CopyTimeout
    \/ NewKubeClient
    \/ WaitForDesiredResourcesEnter
    \/ DiscoveryPoll
    \/ DiscoveryTimeout
    \/ GetSwagger
    \/ GetDesiredPaths
    \/ FilterSpecByPaths
    \/ WriteDoc
    \/ Stop

Spec == Init /\ [][Next]_vars

\* run up to the building of the cluster client, and its deferred stop
ClientNext ==
    \/ CheckFlags
    \/ ParseGroupKind
    \/ NewRancherDockerContainer
    \/ PullRancherImage
    \/ CreateRancherContainer
    \/ StartRancherContainer
    \/ InspectPoll
    \/ InspectTimeout
    \/ CopyPoll
    \/ CopyTimeout
    \/ NewKubeClient
    \/ Stop

\* the same steps with any port flags, against a container whose kubeconfig
\* holds any of ServerURLs
ClientInit ==
    /\ InitRun
    /\ hostPorts \in HTTPPortFlags \X HTTPSPortFlags
    /\ server \in ServerURLs
    /\ source \in Sources

ClientSpec == ClientInit /\ [][ClientNext]_vars

CancelNext ==
    \/ Next
    \/ CancelInspect
    \/ CancelCopy
    \/ CancelDiscovery

\* run with a context that its caller may cancel while a poll is waiting
CancelSpec == Init /\ [][CancelNext]_vars

HangNext ==
    \/ Next
    \/ StopHangs

\* run against a container runtime that may leave a call unanswered
HangSpec == Init /\ [][HangNext]_vars

\* the key that the line "." parses to, and that an operation without the
\* extension decodes to
ZeroKey == GroupKind(<< >>, << >>)

\* desired maps as parseGroupKind makes them, for the schema filter on its own
FilterDesired ==
    { [gk \in keys |-> FALSE] :
        keys \in { {KeyAg}, {KeyB, KeyAg}, {KeyAgh}, {KeyC}, {ZeroKey}, {KeyAg, KeyB, KeyC} } }

\* the documents handed to the schema filter on its own
FilterDocs == Docs \cup {CyclicDoc}

\* run at its call of getDesiredPaths, with any of these maps and documents
FilterInit ==
    /\ pc = "desiredPaths"
    /\ err = NoErr
    /\ deferred = FALSE
    /\ desiredGroupKinds \in FilterDesired
    /\ hostPorts = << "80", "443" >>
    /\ containerID = "cid"
    /\ calls = << >>
    /\ stages = << >>
    /\ inspectPolls = 0
    /\ copyPolls = 0
    /\ kubeConfig = "data"
    /\ gate = "ok"
    /\ GKfound = [gk \in DOMAIN desiredGroupKinds |-> TRUE]
    /\ discLog = << >>
    /\ logs = << >>
    /\ swagger \in FilterDocs
    /\ keepPaths = << >>
    /\ output = "none"
    /\ ctxDone = FALSE
    /\ server = K3sServer
    /\ restHost = RewriteHost(K3sServer).host
    /\ source \in {s \in Sources : s.open = "ok" /\ s.lines = << LnAg >>}
    /\ walker = NoWalk
    /\ k3sPort = "6443"
    /\ portBindings = << PortBindings(hostPorts) >>

\* getDesiredPaths, FilterSpecByPaths and writeDoc
FilterNext ==
    \/ GetDesiredPaths
    \/ FilterSpecByPaths
    \/ WriteDoc

\* the schema filter of run on its own
FilterSpec == FilterInit /\ [][FilterNext]_vars

\* the characters of the lines of a resources file
Chars == {"A", "g", ".", "#", " ", "\t"}

\* the longest line that is made of every combination of Chars
MaxLineLen == 3

\* every line of at most MaxLineLen characters
ShortLines == UNION {[1..n -> Chars] : n \in 0..MaxLineLen}

\* a line that is a single dot
LnDot == << "." >>

\* resources files: each short line on its own, and every pair of the longer lines
ParserFiles ==
    { << l >> : l \in ShortLines }
        \cup { << a, b >> : a, b \in {LnAg, LnAgh, LnB, LnComment, LnBlank, LnDot} }

\* run with a resources file that opens and reads without an error
ParserInit ==
    /\ InitRun
    /\ hostPorts \in RunPortFlags
    /\ server = K3sServer
    /\ source \in {[open |-> "ok", lines |-> f] : f \in ParserFiles}

\* run up to the return of parseGroupKind
ParserNext ==
    \/ CheckFlags
    \/ ParseGroupKind

\* the parsing of the resources file on its own
ParserSpec == ParserInit /\ [][ParserNext]_vars

-----------------------------------------------------------------------------
(* The k3s variant: dockerCluster.start up to the building of the client.   *)

\* --cluster-port values
ClusterPortFlags == {"6443", "443", "8443"}

\* the characters of a port given as a flag value or a constant
PortChars(port) ==
    CASE port = "6443" -> DefaultK3sPort
      [] port = "8443" -> << "8", "4", "4", "3" >>
      [] port = "443" -> << "4", "4", "3" >>
      [] port = "80" -> << "8", "0" >>

\* run's wrapping of an error returned by cluster.start
ClusterStartErr(e) == Chain(<< "failed to start cluster" >>) \o e

\* dockerCluster.start: pullK3sImage, and return its error
PullK3sImage ==
    /\ pc = "k3sPull"
    /\ \E res \in {"ok", "err", "streamerr"} :
          /\ calls' = Append(calls, Call("pull", res))
          /\ IF res = "ok"
             THEN /\ pc' = "k3sCreate"
                  /\ UNCHANGED << err, stages >>
             ELSE Fail("clusterStart", ClusterStartErr(Chain(<< "failed to pull image", res >>)))
    /\ UNCHANGED << deferred, desiredGroupKinds, hostPorts, containerID, inspectPolls,
                    copyPolls, kubeConfig, gate, GKfound, discLog, logs, swagger,
                    keepPaths, output, ctxDone, server, restHost, source, walker, k3sPort, portBindings >>

\* createContainer: the host port the container's port 6443 is bound to
ClusterPortBindings(port) == [k3s |-> port]

\* dockerCluster.start: createContainer, and return its error
CreateContainer ==
    /\ pc = "k3sCreate"
    /\ \E res \in {"ok", "err"} :
          /\ calls' = Append(calls, Call("create", res))
          /\ portBindings' = Append(portBindings, ClusterPortBindings(k3sPort))
          /\ IF res = "ok"
             THEN /\ containerID' = "cid"
                  /\ pc' = "k3sStart"
                  /\ UNCHANGED << err, stages >>
             ELSE /\ Fail("clusterStart", ClusterStartErr(Chain(<< "failed to create k3s container" >>)))
                  /\ UNCHANGED containerID
    /\ UNCHANGED << deferred, desiredGroupKinds, hostPorts, inspectPolls, copyPolls,
                    kubeConfig, gate, GKfound, discLog, logs, swagger, keepPaths, output,
                    ctxDone, server, restHost, source, walker, k3sPort >>

\* dockerCluster.start: startContainer, and return its error
StartContainer ==
    /\ pc = "k3sStart"
    /\ \E res \in {"ok", "err"} :
          /\ calls' = Append(calls, Call("start", res))
          /\ IF res = "ok"
             THEN /\ pc' = "k3sKubeCfg"
                  /\ UNCHANGED << err, stages >>
             ELSE Fail("clusterStart", ClusterStartErr(Chain(<< "failed to start k3s container" >>)))
    /\ UNCHANGED << deferred, desiredGroupKinds, hostPorts, containerID, inspectPolls,
                    copyPolls, kubeConfig, gate, GKfound, discLog, logs, swagger,
                    keepPaths, output, ctxDone, server, restHost, source, walker, k3sPort, portBindings >>

\* dockerCluster.start: getKubeCfgFromContainer as a whole, the poll until the
\* copy succeeds or fails for good and the read of the archive
GetKubeCfgFromContainer ==
    /\ pc = "k3sKubeCfg"
    /\ \E res \in {"data", "timeout", "eof", "tarerr", "readerr"} :
          /\ calls' = Append(calls, Call("copy", IF res = "timeout" THEN "err" ELSE "ok"))
          /\ IF res = "data"
             THEN /\ kubeConfig' = "data"
                  /\ pc' = "k3sRESTConfig"
                  /\ UNCHANGED << err, stages >>
             ELSE /\ Fail("clusterStart", ClusterStartErr(Chain(<< "failed to get kubeconfig", res >>)))
                  /\ UNCHANGED kubeConfig
    /\ UNCHANGED << deferred, desiredGroupKinds, hostPorts, containerID, inspectPolls,
                    copyPolls, gate, GKfound, discLog, logs, swagger, keepPaths, output,
                    ctxDone, server, restHost, source, walker, k3sPort, portBindings >>

\* createRESTConfig: restCfg.Host with its port replaced by cmdFlags.k3sPort
CreateRESTConfig(u, port) ==
    LET k3sURL == URLParse(u)
        hp == SplitHostPort(k3sURL.Host)
    IN  IF ~hp.ok THEN [ok |-> FALSE, err |-> "failed to parse cluster host"]
        ELSE [ok |-> TRUE,
              host |-> URLString([k3sURL EXCEPT !.Host = JoinHostPort(hp.host, PortChars(port))])]

\* dockerCluster.start: createRESTConfig, then clientset.NewForConfig
NewClusterClient ==
    /\ pc = "k3sRESTConfig"
    /\ \E res \in {"ok", "restcfgerr", "clientseterr"} :
          IF res = "restcfgerr"
          THEN /\ Fail("clusterStart", ClusterStartErr(Chain(<< "failed to create restconfig" >>)))
               /\ UNCHANGED restHost
          ELSE IF ~CreateRESTConfig(server, k3sPort).ok
          THEN /\ Fail("clusterStart", ClusterStartErr(Chain(<< CreateRESTConfig(server, k3sPort).err >>)))
               /\ UNCHANGED restHost
          ELSE IF res = "clientseterr"
          THEN /\ Fail("clusterStart", ClusterStartErr(Chain(<< "failed to create new clientset" >>)))
               /\ UNCHANGED restHost
          ELSE /\ restHost' = CreateRESTConfig(server, k3sPort).host
               /\ stages' = Append(stages, Stage("clusterClient", NoErr))
               /\ pc' = "k3sWait"
               /\ err' = err
    /\ UNCHANGED << deferred, desiredGroupKinds, hostPorts, containerID, calls,
                    inspectPolls, copyPolls, kubeConfig, gate, GKfound, discLog,
                    logs, swagger, keepPaths, output, ctxDone, server, source, walker, k3sPort, portBindings >>

\* either variant is entered: the Rancher one with any port flags, the k3s one
\* with any --cluster-port, against a kubeconfig that holds any of ServerURLs
PortInit ==
    /\ InitState
    /\ server \in ServerURLs
    /\ source \in {s \in Sources : s.lines = << LnAg >> /\ s.open = "ok"}
    /\ \/ /\ pc = "flags"
          /\ hostPorts \in HTTPPortFlags \X HTTPSPortFlags
          /\ k3sPort = "6443"
       \/ /\ pc = "k3sPull"
          /\ hostPorts = << "", "" >>
          /\ k3sPort \in ClusterPortFlags

\* each variant up to the building of its client
PortNext ==
    \/ ClientNext
    \/ PullK3sImage
    \/ CreateContainer
    \/ StartContainer
    \/ GetKubeCfgFromContainer
    \/ NewClusterClient

\* both variants, from their flags to their cluster client
PortSpec == PortInit /\ [][PortNext]_vars

\* run with the kubeconfig poll taking its next step: every copy call returns,
\* as it carries requestTimeout, and the timer of the poll fires
FairSpec == Spec /\ WF_vars(CopyPoll \/ CopyTimeout)

-----------------------------------------------------------------------------
(* Properties of run and of the container lifecycle.                        *)

\* the positions of the calls of one kind in the call log
CallsOf(op) == {i \in 1..Len(calls) : calls[i].op = op}

\* the positions of the stages that returned an error
FailedStages == {i \in 1..Len(stages) : ~stages[i].ok}

\* run has returned to its caller
Returned == pc = "done"

\* C1: whenever a container was created, run invokes stop exactly once before it
\* returns, on every exit path, also when start() fails after the creation.
C1_StopOnceWheneverCreated ==
    (Returned /\ \E i \in CallsOf("create") : calls[i].res = "ok")
        => Cardinality(CallsOf("stop")) = 1

\* C2: first error wins.  When run has returned, its error is the error of the
\* first stage that failed, also when stop failed after it; it is stop's error
\* only when every stage before stop succeeded, and nil when nothing failed.
C2_FirstErrorWins ==
    Returned =>
        /\ FailedStages = {} => err = NoErr
        /\ \A i \in FailedStages :
              (\A j \in FailedStages : i <= j) => err = stages[i].err
        /\ \A i \in 1..Len(stages) :
              (stages[i].name = "stop" /\ ~stages[i].ok /\ err = stages[i].err)
                  => \A j \in 1..(i - 1) : stages[j].ok

\* C2 witness: a stage failed, stop failed after it, and run returned the stage's error
C2_Witness ==
    /\ Returned
    /\ \E i, j \in FailedStages :
          /\ i < j
          /\ stages[i].name = "discovery"
          /\ stages[j].name = "stop"
          /\ err = stages[i].err
          /\ err # stages[j].err

\* C3: start issues pull, create, start and the inspections of wait-ready in this
\* order, each only directly after the success of the one before it, each of the
\* first three once; start returns success only after all four succeeded.
C3_LifecycleOrder ==
    /\ \A i \in CallsOf("pull") : i = 1
    /\ \A i \in CallsOf("create") : i = 2 /\ calls[1] = Call("pull", "ok")
    /\ \A i \in CallsOf("start") : i = 3 /\ calls[2] = Call("create", "ok")
    /\ \A i \in CallsOf("inspect") :
          /\ i > 3
          /\ calls[3] = Call("start", "ok")
          /\ \A j \in 4..(i - 1) : calls[j] = Call("inspect", "notrunning")
    /\ \A k \in 1..Len(stages) :
          (stages[k].name = "start" /\ stages[k].ok) =>
              /\ Len(calls) >= 4
              /\ calls[1] = Call("pull", "ok")
              /\ calls[2] = Call("create", "ok")
              /\ calls[3] = Call("start", "ok")
              /\ \E i \in CallsOf("inspect") : calls[i].res = "running"

\* C3 witness: start returned success after a not-running and a running inspection
C3_Witness ==
    /\ \E k \in 1..Len(stages) : stages[k].name = "start" /\ stages[k].ok
    /\ Len(calls) >= 5
    /\ calls[4] = Call("inspect", "notrunning")
    /\ calls[5] = Call("inspect", "running")

\* the state of the container lifecycle that the calls made so far have reached
LifecycleState ==
    IF CallsOf("stop") # {} THEN "Stopped"
    ELSE IF \E i \in CallsOf("inspect") : calls[i].res = "running" THEN "Ready"
    ELSE IF \E i \in CallsOf("start") : calls[i].res = "ok" THEN "Started"
    ELSE IF \E i \in CallsOf("create") : calls[i].res = "ok" THEN "Created"
    ELSE IF \E i \in CallsOf("pull") : calls[i].res = "ok" THEN "ImagePulled"
    ELSE "Init"

\* C4: stop is never invoked in Init, ImagePulled or Created: every stop call is
\* preceded by a successful container start call, and run is about to invoke stop
\* only in Started or Ready.
C4_StopOnlyAfterStart ==
    /\ \A i \in CallsOf("stop") :
          \E j \in 1..(i - 1) : calls[j] = Call("start", "ok")
    /\ pc = "stop" => LifecycleState \in {"Started", "Ready"}

\* C4 witness: stop was invoked, after a stage that follows start had failed
C4_Witness ==
    /\ CallsOf("stop") # {}
    /\ \E i \in FailedStages : stages[i].name = "kubeconfig"

\* the stages the pipeline is described by, in their order
StageOrder ==
    << "parse", "start", "kubeconfig", "discovery", "getSwagger", "desiredPaths",
       "filter", "write", "stop" >>

StageNames == {StageOrder[r] : r \in 1..Len(StageOrder)}

StageRank(name) == CHOOSE r \in 1..Len(StageOrder) : StageOrder[r] = name

ListedStages == {i \in 1..Len(stages) : stages[i].name \in StageNames}

\* the stages run in the fixed order, and the document is retrieved at most once,
\* directly after the discovery call with which the gate returned success
StagesInOrder ==
    /\ \A i, j \in ListedStages : i < j => StageRank(stages[i].name) < StageRank(stages[j].name)
    /\ Cardinality(CallsOf("openapi")) <= 1
    /\ \A i \in CallsOf("openapi") :
          /\ gate = "ok"
          /\ i > 1
          /\ calls[i - 1] = Call("discovery", "ok")
          /\ \E k \in 1..Len(stages) : stages[k].name = "discovery" /\ stages[k].ok

\* C5 as stated: the stages run in the fixed order and each of them, stop
\* included, runs only if all earlier stages succeeded.
C5_EveryStageOnlyAfterSuccess ==
    /\ StagesInOrder
    /\ \A i \in ListedStages : \A j \in 1..(i - 1) : stages[j].ok

\* C5 amended: the stages run in the fixed order, the document is retrieved at most
\* once and only after the gate returned success, each stage other than stop runs
\* only if all earlier stages succeeded, and stop is the last stage of a run.
C5_StageOrder ==
    /\ StagesInOrder
    /\ \A i \in ListedStages :
          stages[i].name # "stop" => \A j \in 1..(i - 1) : stages[j].ok
    /\ \A i \in 1..Len(stages) : stages[i].name = "stop" => i = Len(stages)

\* C5 witness: a run in which every stage ran and succeeded
C5_Witness ==
    /\ Returned
    /\ FailedStages = {}
    /\ {stages[i].name : i \in ListedStages} = StageNames
    /\ Cardinality(CallsOf("openapi")) = 1

-----------------------------------------------------------------------------
(* Properties of the discovery gate.                                        *)

\* the (group, kind) pairs that the i-th poll cycle received; none when the call
\* returned an error, whatever partial list came with it
ReportedAt(i) == IF discLog[i].err THEN {} ELSE Discovered(discLog[i].lists)

\* the pairs received in the first n poll cycles
ReportedUpTo(n) == UNION {ReportedAt(i) : i \in 1..n}

\* every desired key was received in one of the first n poll cycles
AllReportedUpTo(n) == \A gk \in DOMAIN desiredGroupKinds : gk \in ReportedUpTo(n)

\* C6: once the gate is entered, its found map has exactly the desired keys (no key
\* is added for a pair outside the desired set), and a key's flag is true exactly
\* when some poll cycle so far reported the key: a reported desired key becomes
\* true, and a later poll that no longer reports it does not reset it.
C6_FoundFlagsFollowDiscovery ==
    gate # "idle" =>
        /\ DOMAIN GKfound = DOMAIN desiredGroupKinds
        /\ \A gk \in DOMAIN GKfound : GKfound[gk] <=> gk \in ReportedUpTo(Len(discLog))

\* C6 witness: a key reported by the first poll and not by the second is still true,
\* and a reported pair outside the desired set has no entry in the map
C6_Witness ==
    /\ gate # "idle"
    /\ Len(discLog) = 2
    /\ \E gk \in DOMAIN GKfound :
          /\ gk \in ReportedAt(1)
          /\ gk \notin ReportedAt(2)
          /\ GKfound[gk]
    /\ KeyC \in ReportedAt(2)
    /\ KeyC \notin DOMAIN GKfound

\* C7: the gate returns success at the end of the first poll cycle after which every
\* desired key has been reported, and makes no discovery call after it: when it has
\* returned success, the number N of discovery calls is such that the first N
\* cycles reported all desired keys and the first N - 1 did not (so N is the least
\* such number), and every key is found; while it is still polling, some desired
\* key is unreported.
C7_SuccessAtFirstCompletePoll ==
    /\ gate = "ok" =>
          /\ AllFound(GKfound)
          /\ AllReportedUpTo(Len(discLog))
          /\ ~AllReportedUpTo(Len(discLog) - 1)
          /\ Cardinality(CallsOf("discovery")) = Len(discLog)
    /\ gate = "polling" => ~AllReportedUpTo(Len(discLog))

\* C7 witness: two desired keys, none reported by the first two polls, both by the
\* third, and the gate returned success after exactly three discovery calls
C7_Witness ==
    /\ gate = "ok"
    /\ Cardinality(DOMAIN desiredGroupKinds) = 2
    /\ Len(discLog) = 3
    /\ ReportedAt(1) \cap DOMAIN desiredGroupKinds = {}
    /\ ReportedAt(2) \cap DOMAIN desiredGroupKinds = {}
    /\ DOMAIN desiredGroupKinds \subseteq ReportedAt(3)
    /\ Cardinality(CallsOf("discovery")) = 3

\* C8 as stated: when the gate has returned success, every key of the desired map
\* passed to it has its found flag set to true.
C8_DesiredSetFlagsTrue ==
    gate = "ok" => \A gk \in DOMAIN desiredGroupKinds : desiredGroupKinds[gk]

\* C8 amended: when the gate has returned success, every key of the desired map is
\* a key of the gate's own found map with the value true; the flags of the desired
\* map itself are left as they were, false, until path selection runs.
C8_GateFoundEveryDesiredKey ==
    gate = "ok" =>
        /\ DOMAIN GKfound = DOMAIN desiredGroupKinds
        /\ \A gk \in DOMAIN desiredGroupKinds : GKfound[gk]
        /\ pc \in {"getSwagger", "desiredPaths"} =>
              \A gk \in DOMAIN desiredGroupKinds : ~desiredGroupKinds[gk]

\* C8 witness: the gate has just returned success for two desired keys
C8_Witness ==
    /\ gate = "ok"
    /\ pc = "getSwagger"
    /\ Cardinality(DOMAIN desiredGroupKinds) = 2
    /\ \A gk \in DOMAIN desiredGroupKinds : GKfound[gk] /\ ~desiredGroupKinds[gk]

\* the gate's stage in run's stage log
GateStages == {i \in 1..Len(stages) : stages[i].name = "discovery"}

\* C9: a failed discovery call never ends the gate.  The gate fails only by its
\* deadline (the error it returns wraps the poll's deadline error), it is still
\* polling after any number of failed cycles, and failed cycles do not keep it
\* from succeeding: it never stops polling unsuccessfully, nor times out, once
\* every desired key has been reported.
C9_FailedPollNotFatal ==
    /\ gate \in {"idle", "polling", "ok", "timeout"}
    /\ \A i \in GateStages :
          ~stages[i].ok =>
              /\ gate = "timeout"
              /\ stages[i].err = GateErr(Chain(<< "context deadline exceeded" >>))
    /\ (Len(discLog) >= 1 /\ discLog[Len(discLog)].err) =>
          /\ gate \in {"polling", "timeout"}
          /\ GateStages = {} => (gate = "polling" /\ pc = "discovery")
    /\ AllReportedUpTo(Len(discLog)) /\ gate # "idle" => gate = "ok"

\* C9 witness: the gate returned success on its third poll after two failed cycles
C9_Witness ==
    /\ gate = "ok"
    /\ Len(discLog) = 3
    /\ discLog[1].err
    /\ discLog[2].err

\* the names a log line or an error chain holds
NamesIn(seq) == {seq[i] : i \in 1..Len(seq)}

\* the line the gate logged on its timeout
TimeoutLogs == {i \in 1..Len(logs) : logs[i].msg = "Timed out waiting for all GroupKinds. Still missing"}

-----------------------------------------------------------------------------
(* Properties of the kubeconfig poll.                                       *)

\* the positions of the kubeconfig stage in the stage log (at most one)
KubeconfigStages == {i \in 1..Len(stages) : stages[i].name = "kubeconfig"}

\* getKubeConfigFromContainer returned the error of its poll
CopyPollFailed == \E i \in KubeconfigStages : stages[i].err = KubeConfigErr(CopyPollErr)

\* the copy calls issued after call i
CopiesAfter(i) == {j \in CallsOf("copy") : j > i}

\* C11: in the kubeconfig poll a copy that answers "not found" does not end the
\* poll (another copy follows, or the poll is still waiting, or its budget ran
\* out); a copy that fails in any other way is the last copy and the poll has
\* failed; the first copy that succeeds is the last copy and the poll has not failed
C11_CopyPollRetriesOnlyNotFound ==
    \A i \in CallsOf("copy") :
        /\ calls[i].res = "notfound" =>
              \/ CopiesAfter(i) # {}
              \/ pc = "kubeconfig" /\ KubeconfigStages = {}
              \/ CopyPollFailed /\ copyPolls >= 1
        /\ calls[i].res = "err" =>
              /\ CopiesAfter(i) = {}
              /\ pc # "kubeconfig"
              /\ CopyPollFailed
        /\ calls[i].res = "ok" =>
              /\ CopiesAfter(i) = {}
              /\ pc # "kubeconfig"
              /\ KubeconfigStages # {}
              /\ ~CopyPollFailed

\* a copy answered "not found", the next one failed otherwise and ended the poll
C11_Witness ==
    \E i \in CallsOf("copy") :
        /\ calls[i].res = "notfound"
        /\ \E j \in CopiesAfter(i) : calls[j].res = "err"
        /\ CopyPollFailed

\* the error of an archive without content
EmptyKubeConfigErr == KubeConfigErr(Chain(<< "k3s kubeConfig is empty" >>))

\* C12: after a successful copy whose archive has no first entry ("eof") or
\* whose first entry is zero-length ("empty"), the extraction fails with the
\* "kubeConfig is empty" error, no further copy is issued, and empty bytes are
\* never returned as a success
C12_EmptyArchiveFails ==
    /\ \A i \in CallsOf("readArchive") :
          calls[i].res \in {"eof", "empty"} =>
              /\ \E k \in KubeconfigStages : stages[k].err = EmptyKubeConfigErr
              /\ CopiesAfter(i) = {}
    /\ \A k \in KubeconfigStages : stages[k].ok => kubeConfig # "empty"

\* C13: the kubeconfig poll issues no more copies than fit into its budget; when
\* every copy answered "not found" the extraction has failed with the poll's
\* timeout error, not succeeded; and the poll always comes to an end
C13_AllNotFoundTimesOut ==
    /\ [](Cardinality(CallsOf("copy")) <= MaxCopyPolls)
    /\ []((KubeconfigStages # {} /\ \A i \in CallsOf("copy") : calls[i].res = "notfound")
             => (CopyPollFailed /\ \A k \in KubeconfigStages : ~stages[k].ok))
    /\ (pc = "kubeconfig" ~> pc # "kubeconfig")

\* the whole budget was spent on "not found" answers and the poll timed out
C13_Witness ==
    /\ copyPolls = MaxCopyPolls
    /\ Cardinality(CallsOf("copy")) = MaxCopyPolls
    /\ \A i \in CallsOf("copy") : calls[i].res = "notfound"
    /\ CopyPollFailed

-----------------------------------------------------------------------------
(* Properties of the three polls together.                                  *)

\* what run returns when the budget of a poll runs out
PollTimeoutErrs ==
    { StartErr(Chain(<< "failed to wait for rancher container", "context deadline exceeded" >>)),
      KubeConfigErr(CopyPollErr),
      GateErr(Chain(<< "context deadline exceeded" >>)) }

\* C14: once the caller's context is cancelled during a poll, the poll is over
\* and the stage it belongs to has failed with an error that is not the error
\* of a timeout
C14_CancelDistinctFromTimeout ==
    ctxDone =>
        /\ pc \notin {"waitReady", "kubeconfig", "discovery"}
        /\ \E i \in FailedStages :
              /\ stages[i].name \in {"start", "kubeconfig", "discovery"}
              /\ stages[i].err \notin PollTimeoutErrs

\* C15: every call issued to the container runtime or the cluster has a
\* deadline of its own on its context, and none of them blocks run for ever
C15_EveryCallHasTimeout ==
    /\ \A i \in 1..Len(calls) :
          /\ CallTimeout(calls[i].op) \in {"requestTimeout", "waitInterval"}
          /\ calls[i].res # "hang"
    /\ pc # "hung"

-----------------------------------------------------------------------------
(* Properties of waitForRancherContainer.                                   *)

\* the positions of the start stage in the stage log (at most one)
StartStages == {i \in 1..Len(stages) : stages[i].name = "start"}

\* the inspections issued after call i
InspectsAfter(i) == {j \in CallsOf("inspect") : j > i}

\* what run returns when the container poll's budget runs out
InspectTimeoutErr ==
    StartErr(Chain(<< "failed to wait for rancher container", "context deadline exceeded" >>))

\* C16: an inspection that reports "not running" does not end the wait (another
\* inspection follows, or the wait goes on, or its budget ran out and start
\* failed with the timeout error); the first inspection that reports "running"
\* is the last one and start has succeeded; start never succeeds without an
\* inspection that reported "running"
C16_WaitReadyUntilRunning ==
    /\ Cardinality(CallsOf("inspect")) <= MaxInspectPolls
    /\ \A i \in CallsOf("inspect") :
          /\ calls[i].res = "notrunning" =>
                \/ InspectsAfter(i) # {}
                \/ pc = "waitReady" /\ StartStages = {}
                \/ \E k \in StartStages : stages[k].err = InspectTimeoutErr
          /\ calls[i].res = "running" =>
                /\ InspectsAfter(i) = {}
                /\ \E k \in StartStages : stages[k].ok
    /\ \A k \in StartStages :
          stages[k].ok => \E i \in CallsOf("inspect") : calls[i].res = "running"
    /\ (StartStages # {} /\ CallsOf("inspect") # {}
          /\ \A i \in CallsOf("inspect") : calls[i].res = "notrunning")
       => \E k \in StartStages : stages[k].err = InspectTimeoutErr

\* the container was reported "not running" first and "running" next
C16_Witness ==
    \E i \in CallsOf("inspect") :
        /\ calls[i].res = "notrunning"
        /\ \E j \in InspectsAfter(i) : calls[j].res = "running"
        /\ \E k \in StartStages : stages[k].ok

\* the whole budget of the container poll went by with the container not running
C16_WitnessTimeout ==
    /\ Cardinality(CallsOf("inspect")) = MaxInspectPolls
    /\ \A i \in CallsOf("inspect") : calls[i].res = "notrunning"
    /\ \E k \in StartStages : stages[k].err = InspectTimeoutErr

-----------------------------------------------------------------------------
(* Properties of the port bindings and of the cluster client.               *)

\* C17: no create request is issued with two of the container's ports (HTTP,
\* HTTPS, Kubernetes API) bound to the same host port
C17_CreateBindsDistinctHostPorts ==
    CallsOf("create") # {} =>
        \A a, b \in DOMAIN PortBindings(hostPorts) :
            a # b => PortBindings(hostPorts)[a] # PortBindings(hostPorts)[b]

\* the host segment of a URL's authority: what stands before the colon of the port
HostSegment(hostport) == SubSeq(hostport, 1, LastIndexOf(hostport, ":") - 1)

\* C18: once the cluster client is built, its server URL differs from the one in
\* the kubeconfig in the port alone: the scheme, the host segment and the path
\* are those of the kubeconfig and the port is the host's Kubernetes API port
C18_RewriteChangesOnlyPort ==
    restHost # << >> =>
        LET before == URLParse(server)
            after == URLParse(restHost)
        IN  /\ after.Scheme = before.Scheme
            /\ after.Path = before.Path
            /\ HostSegment(after.Host) = HostSegment(before.Host)
            /\ SplitHostPort(after.Host).ok
            /\ SplitHostPort(after.Host).host = SplitHostPort(before.Host).host
            /\ SplitHostPort(after.Host).port = DefaultK3sPort

\* a client was built from a kubeconfig whose server has another port, a host
\* in brackets or a path
C18_Witness ==
    /\ restHost # << >>
    /\ restHost # server
    /\ \E k \in 1..Len(stages) : stages[k].name = "newKubeClient" /\ stages[k].ok

-----------------------------------------------------------------------------
(* Properties of getDesiredPaths.                                           *)

\* the paths of the retrieved document one of whose present operations, over the
\* seven method slots, carries a key that is a key of the desired map
MatchingPaths ==
    {p \in DOMAIN swagger.paths :
        \E m \in Methods :
            /\ swagger.paths[p][m].present
            /\ \E gk \in AddGKFromOp(swagger.paths[p][m]) : gk \in DOMAIN desiredGroupKinds}

\* C19: when path selection has returned its list (and the document is not yet
\* filtered), the list holds exactly the matching paths, each once
C19_KeptIffSomeOperationMatches ==
    pc = "filter" =>
        /\ {keepPaths[i] : i \in 1..Len(keepPaths)} = MatchingPaths
        /\ Len(keepPaths) = Cardinality(MatchingPaths)

\* of three paths two were kept, one of them for its DELETE operation alone, and
\* one was dropped
C19_Witness ==
    /\ pc = "filter"
    /\ Cardinality(DOMAIN swagger.paths) = 3
    /\ Len(keepPaths) = 2
    /\ \E i \in 1..Len(keepPaths) :
          AddGKFromOp(swagger.paths[keepPaths[i]]["GET"]) \cap DOMAIN desiredGroupKinds = {}

\* the positions of the path selection stage in the stage log (at most one)
DesiredPathsStages == {i \in 1..Len(stages) : stages[i].name = "desiredPaths"}

\* the desired keys that no operation of any path of the document carries
UnmatchedKeys ==
    {gk \in DOMAIN desiredGroupKinds :
        \A p \in DOMAIN swagger.paths, m \in Methods : gk \notin AddGKFromOp(swagger.paths[p][m])}

\* C20: once path selection has returned for a document with paths, every
\* desired key that appears in no path has made it fail with an error that
\* names that key, and no list of kept paths was returned
C20_UnmatchedKeyFailsNamed ==
    \A i \in DesiredPathsStages :
        \A gk \in UnmatchedKeys :
            swagger.hasPaths =>
                /\ ~stages[i].ok
                /\ stages[i].err[Len(stages[i].err)] = GKString(gk)
                /\ keepPaths = << >>

\* the keys a failed path selection names: what follows the message of its error
MatchErrNames(i) == NamesIn(Tail(stages[i].err))

\* C21: when path selection fails for a document with paths, the error it
\* returns names exactly the desired keys that no path of the document carries:
\* every one of them, and no key that some path carries
C21_MatchErrorEnumeratesUnmatched ==
    \A i \in DesiredPathsStages :
        (swagger.hasPaths /\ ~stages[i].ok) =>
            MatchErrNames(i) = {GKString(gk) : gk \in UnmatchedKeys}

\* the keys that key extraction yields over all paths of the document run holds
DocKeys == UNION {GroupKindsFromPath(swagger.paths[p]) : p \in DOMAIN swagger.paths}

\* C22: when the desired keys are exactly the keys extracted from the retrieved
\* document, path selection succeeds and the list it returns holds every path of
\* the document, so that filtering leaves the paths as they were
C22_FullKeySetKeepsEveryPath ==
    \A i \in DesiredPathsStages :
        (swagger.hasPaths /\ DOMAIN desiredGroupKinds = DocKeys) =>
            /\ stages[i].ok
            /\ pc = "filter" => {keepPaths[k] : k \in 1..Len(keepPaths)} = DOMAIN swagger.paths

-----------------------------------------------------------------------------
(* Properties of FilterSpecByPaths and of the reference walk.               *)

\* the positions of the filter stage in the stage log (at most one)
FilterStages == {i \in 1..Len(stages) : stages[i].name = "filter"}

\* every reference that a schema holds, at any depth
RECURSIVE RefsOfSchema(_)
RefsOfSchema(schema) ==
    IF schema.nil THEN {}
    ELSE {schema.ref} \cup UNION {RefsOfSchema(schema.sub[i]) : i \in 1..Len(schema.sub)}

\* every reference that a parameter holds: its own, its schema's, its items'
RefsOfParam(param) ==
    {param.ref} \cup RefsOfSchema(param.schema)
        \cup (IF param.hasItems THEN {param.items} ELSE {})

\* every reference that the parameters and responses of an operation hold
RefsOfOp(op) ==
    UNION {RefsOfParam(op.parameters[i]) : i \in 1..Len(op.parameters)}
        \cup UNION {{op.responses[i].ref} \cup RefsOfSchema(op.responses[i].schema) :
                       i \in 1..Len(op.responses)}

\* every reference held by the present operations of the given paths
RefsOfPaths(doc, kept) ==
    UNION {IF doc.paths[p][m].present THEN RefsOfOp(doc.paths[p][m]) ELSE {} :
              p \in kept, m \in Methods}

\* the references held by what a reference resolves to in the document
RefsFrom(doc, ref) ==
    IF ref.kind = "parameters" /\ ref.name \in DOMAIN doc.parameters
    THEN RefsOfParam(doc.parameters[ref.name])
    ELSE IF ref.kind = "definitions" /\ ref.name \in DOMAIN doc.definitions
    THEN RefsOfSchema(doc.definitions[ref.name])
    ELSE {}

\* the least set of references that holds refs and is closed under RefsFrom
RECURSIVE RefClosure(_, _)
RefClosure(doc, refs) ==
    LET more == refs \cup UNION {RefsFrom(doc, r) : r \in refs}
    IN  IF more = refs THEN refs ELSE RefClosure(doc, more)

\* the definitions of the document that the given paths reach
ReachableDefinitions(doc, kept) ==
    {d \in DOMAIN doc.definitions : DefRef(d) \in RefClosure(doc, RefsOfPaths(doc, kept))}

C24_WalkTerminatesVisitingOnce ==
    /\ pc # "crashed"
    /\ ~walker.overflow
    /\ \A i \in 1..Len(walker.walked) :
          /\ walker.walked[i] \in walker.alreadyVisited
          /\ \A j \in 1..Len(walker.walked) : i # j => walker.walked[i] # walker.walked[j]
    /\ (FilterStages # {} /\ DefRef("Y") \in walker.alreadyVisited)
          => "Y" \in DOMAIN swagger.definitions

\* C25: once filtering has returned, every path and every definition of the
\* document is a path or definition of the retrieved document and equal to it,
\* and every other top-level field is as it was retrieved
C25_FilterChangesOnlyPathsAndDefinitions ==
    FilterStages # {} =>
        LET root == walker.root
        IN  /\ \A p \in DOMAIN swagger.paths :
                  p \in DOMAIN root.paths /\ swagger.paths[p] = root.paths[p]
            /\ \A d \in DOMAIN swagger.definitions :
                  d \in DOMAIN root.definitions /\ swagger.definitions[d] = root.definitions[d]
            /\ swagger.info = root.info
            /\ swagger.securityDefinitions = root.securityDefinitions
            /\ swagger.parameters = root.parameters
            /\ swagger.retrieved = root.retrieved
            /\ swagger.hasPaths = root.hasPaths

\* filtering returned a document that has lost a path and definitions and has
\* kept its other fields
C25_Witness ==
    /\ FilterStages # {}
    /\ DOMAIN swagger.paths # DOMAIN walker.root.paths
    /\ DOMAIN swagger.definitions # DOMAIN walker.root.definitions
    /\ DOMAIN swagger.paths # {}
    /\ DOMAIN swagger.definitions # {}
    /\ swagger.info = "Kubernetes"

-----------------------------------------------------------------------------
(* Properties of key extraction.                                            *)

\* the keys that the operations of a path item decode to: those of the present
\* operations whose extension is there and decodes
DecodedKeys(item) == {item[m].gk : m \in {n \in Methods : item[n].present /\ item[n].ext = "ok"}}

\* C26: when path selection has returned its list, a path with an operation
\* whose key is desired is on the list whatever the extensions of its other
\* operations and of the other paths are, and a path is on the list only for a
\* key that one of its operations decodes to: an operation without the
\* extension, or with one that does not decode, contributes no key
C26_ExtractionContinuesOnError ==
    pc = "filter" =>
        \A p \in DOMAIN swagger.paths :
            (\E i \in 1..Len(keepPaths) : keepPaths[i] = p)
                <=> DecodedKeys(swagger.paths[p]) \cap DOMAIN desiredGroupKinds # {}

-----------------------------------------------------------------------------
(* Properties of the output.                                                *)

\* the stages that come before the writing of the document
BeforeWrite == {i \in 1..Len(stages) : stages[i].name \notin {"write", "stop"}}

\* C27: the document is written only after path selection and filtering have
\* returned without an error: whenever something was written, to the file or to
\* standard output, both have succeeded and no stage before the writing has
\* failed; in a run in which a stage before the writing failed the output is
\* untouched
C27_OutputOnlyAfterFilter ==
    /\ output # "none" =>
          /\ \E i \in DesiredPathsStages : stages[i].ok
          /\ \E i \in FilterStages : stages[i].ok
          /\ \A i \in BeforeWrite : stages[i].ok
    /\ (\E i \in BeforeWrite : ~stages[i].ok) => output = "none"

\* run has returned after path selection failed, and nothing was written
C27_Witness ==
    /\ Returned
    /\ \E i \in DesiredPathsStages : ~stages[i].ok
    /\ output = "none"

\* run has returned after it wrote the filtered document to the file
C27_WitnessWritten ==
    /\ Returned
    /\ output = "file"
    /\ \E i \in FilterStages : stages[i].ok

-----------------------------------------------------------------------------
(* Properties of the desired map.                                           *)

\* parseGroupKind has returned the map
Parsed == \E i \in 1..Len(stages) : stages[i].name = "parse" /\ stages[i].ok

\* C28: once parsed, the desired map has the parsed keys in every state; no
\* step takes a key away or adds one, no step sets a flag back to false, and a
\* step that changes a flag is a step of the discovery gate or of path selection
C28_DesiredSetKeysFixedFlagsMonotone ==
    /\ [](Parsed => DOMAIN desiredGroupKinds = ParsedKeys(source.lines))
    /\ [][Parsed =>
            /\ DOMAIN desiredGroupKinds' = DOMAIN desiredGroupKinds
            /\ \A gk \in DOMAIN desiredGroupKinds : desiredGroupKinds[gk] => desiredGroupKinds'[gk]
            /\ desiredGroupKinds' # desiredGroupKinds => pc \in {"discovery", "desiredPaths"}]_vars

\* path selection has set the flags of both keys of a map of two, which were
\* false when the gate returned
C28_Witness ==
    /\ pc = "filter"
    /\ Cardinality(DOMAIN desiredGroupKinds) = 2
    /\ DOMAIN desiredGroupKinds = ParsedKeys(source.lines)
    /\ \A gk \in DOMAIN desiredGroupKinds : desiredGroupKinds[gk]

-----------------------------------------------------------------------------
(* Properties of parseGroupKind.                                            *)

\* the text between the first and the last character of a line that is not white space
Strip(text) ==
    LET solid == {i \in 1..Len(text) : ~IsSpace(text[i])}
    IN  IF solid = {} THEN << >>
        ELSE SubSeq(text, CHOOSE i \in solid : \A j \in solid : i <= j,
                          CHOOSE i \in solid : \A j \in solid : j <= i)

\* a line that is blank or a comment once its white space is taken off
Skipped(text) == Strip(text) = << >> \/ Strip(text)[1] = "#"

\* the lines of the resources file that are not skipped
Contributing == {i \in 1..Len(source.lines) : ~Skipped(source.lines[i])}

\* the scan loop's log lines, one for each line it made a key of
ParseLogs ==
    LET IsParsed(l) == l.msg = "Resource parsed successfully"
    IN  SelectSeq(logs, IsParsed)

\* the positions of the parse stage in the stage log (at most one)
ParseStages == {i \in 1..Len(stages) : stages[i].name = "parse"}

\* kind and group are the text around one of its dots, or the kind is the text
\* and the group is empty when the text has no dot
MadeOf(gk, text) ==
    IF CountOf(text, ".") = 0 THEN gk.Kind = text /\ gk.Group = << >>
    ELSE gk.Kind \o << "." >> \o gk.Group = text

\* C29: when parseGroupKind has returned for a file that was read, the loop has
\* made a key of each line that is neither blank nor a comment once trimmed,
\* one key a line, and of no other line; each key is made of the trimmed text
\* of such a line, and the parse has failed exactly when there is no such line
C29_TrimmedBlankAndCommentSkipped ==
    (ParseStages # {} /\ source.open = "ok") =>
        /\ Len(ParseLogs) = Cardinality(Contributing)
        /\ \A k \in ParseStages : stages[k].ok <=> Contributing # {}
        /\ \A i \in Contributing :
              \E gk \in DOMAIN desiredGroupKinds : MadeOf(gk, Strip(source.lines[i]))
        /\ \A gk \in DOMAIN desiredGroupKinds :
              \E i \in Contributing : MadeOf(gk, Strip(source.lines[i]))

\* a file of a padded line and a comment line was parsed to the one key B
C29_Witness ==
    /\ \E k \in ParseStages : stages[k].ok
    /\ Len(source.lines) = 2
    /\ Cardinality(Contributing) = 1
    /\ \E i \in 1..2 : source.lines[i] = LnB
    /\ \E i \in 1..2 : source.lines[i] = LnComment
    /\ DOMAIN desiredGroupKinds = {KeyB}

\* the position of the first dot of a text, 0 when it has none
FirstDot(text) ==
    LET dots == {i \in 1..Len(text) : text[i] = "."}
    IN  IF dots = {} THEN 0 ELSE CHOOSE i \in dots : \A j \in dots : i <= j

\* C30: every key of the parsed map comes from a line split at its first dot:
\* its kind is the trimmed text before that dot, and has no dot, and its group
\* is all the text after it, further dots included; a line without a dot gives
\* its trimmed text as the kind and the empty group
C30_SplitAtFirstDotOnly ==
    (\E k \in ParseStages : stages[k].ok) =>
        /\ \A gk \in DOMAIN desiredGroupKinds : CountOf(gk.Kind, ".") = 0
        /\ \A i \in Contributing :
              LET text == Strip(source.lines[i])
                  d == FirstDot(text)
              IN  IF d = 0
                  THEN GroupKind(<< >>, text) \in DOMAIN desiredGroupKinds
                  ELSE GroupKind(SubSeq(text, d + 1, Len(text)), SubSeq(text, 1, d - 1))
                          \in DOMAIN desiredGroupKinds
        /\ Cardinality(DOMAIN desiredGroupKinds) <= Cardinality(Contributing)

\* a file with the lines A.g.h and B was parsed to the kind A of the group g.h
\* and the kind B of the empty group
C30_Witness ==
    /\ \E k \in ParseStages : stages[k].ok
    /\ \E i \in 1..Len(source.lines) : source.lines[i] = LnAgh
    /\ DOMAIN desiredGroupKinds = {KeyAgh, KeyB}

\* the (kind, group) pair that a contributing line stands for: the trimmed
\* text around its first dot
PairOf(text) ==
    LET t == Strip(text)
        d == FirstDot(t)
    IN  IF d = 0 THEN GroupKind(<< >>, t)
        ELSE GroupKind(SubSeq(t, d + 1, Len(t)), SubSeq(t, 1, d - 1))

\* the distinct pairs among the contributing lines of the resources file
DistinctPairs == {PairOf(source.lines[i]) : i \in Contributing}

\* parseGroupKind has just returned a map
JustParsed == stages # << >> /\ stages[Len(stages)].name = "parse" /\ stages[Len(stages)].ok

\* C31: the map that parseGroupKind returns has as many keys as there are
\* distinct (kind, group) pairs among the contributing lines, repeated lines
\* counting once, and every value in it is false
C31_SizeIsDistinctPairsAllUnfound ==
    JustParsed =>
        /\ Cardinality(DOMAIN desiredGroupKinds) = Cardinality(DistinctPairs)
        /\ \A gk \in DOMAIN desiredGroupKinds : desiredGroupKinds[gk] = FALSE

\* a file holding the line A.g twice was parsed to a map of one key
C31_Witness ==
    /\ JustParsed
    /\ source.lines = << LnAg, LnAg >>
    /\ Len(ParseLogs) = 2
    /\ DOMAIN desiredGroupKinds = {KeyAg}

\* C32: parseGroupKind fails when the source cannot be opened, when the fetch
\* answers with another status than 200, and when no line of the file
\* contributes a key; a failed parse leaves run without a map and with an
\* error, and run returns without one call to the container runtime; a map
\* that the parse returned has at least one key
C32_ParserFailsOnEmptyOrUnopenable ==
    \A k \in ParseStages :
        /\ source.open \in {"openfail", "badstatus"} => ~stages[k].ok
        /\ (source.open = "ok" /\ Contributing = {}) => ~stages[k].ok
        /\ ~stages[k].ok =>
              /\ desiredGroupKinds = << >>
              /\ err # NoErr
              /\ calls = << >>
              /\ k = Len(stages)
              /\ ~deferred
        /\ stages[k].ok => DOMAIN desiredGroupKinds # {}

\* run has returned after a parse that failed on a file of a comment and a
\* blank line only
C32_Witness ==
    /\ Returned
    /\ source = [open |-> "ok", lines |-> << LnComment, LnBlank >>]
    /\ \E k \in ParseStages : ~stages[k].ok
    /\ calls = << >>

\* run has returned after a parse whose fetch answered with a bad status
C32_WitnessBadStatus ==
    /\ Returned
    /\ source.open = "badstatus"
    /\ \E k \in ParseStages : ~stages[k].ok
    /\ calls = << >>

\* C33: once stop has returned, every ContainerStop call is followed by a
\* ContainerRemove call, whatever the stop call answered, and no
\* ContainerRemove call comes before the first ContainerStop call
C33_RemoveAttemptedAfterStop ==
    Returned =>
        /\ \A i \in CallsOf("stop") : \E j \in CallsOf("remove") : i < j
        /\ \A j \in CallsOf("remove") : \E i \in CallsOf("stop") : i < j

\* the half of C33 that the code keeps: no ContainerRemove call without a
\* ContainerStop call before it
RemoveOnlyAfterStop ==
    \A j \in CallsOf("remove") : \E i \in CallsOf("stop") : i < j /\ calls[i].res = "ok"

-----------------------------------------------------------------------------
(* Further properties of getDesiredPaths.                                   *)

\* C34: path selection succeeds for every document in which each desired key
\* is carried by an operation of at least one path, also when two desired keys
\* sit on the operations of one path and one of them on no other path
C34_SucceedsWhenEveryKeyOnSomePath ==
    \A i \in DesiredPathsStages :
        (swagger.hasPaths /\ UnmatchedKeys = {}) => stages[i].ok

\* C35: when path selection has returned its list, the list is not empty, names
\* no path twice, names only paths with an operation whose key is desired, and
\* every flag of the desired map is true
C35_SuccessMeansAllFoundNonEmptyKept ==
    pc = "filter" =>
        /\ keepPaths # << >>
        /\ \A i, j \in 1..Len(keepPaths) : keepPaths[i] = keepPaths[j] => i = j
        /\ \A i \in 1..Len(keepPaths) :
              /\ keepPaths[i] \in DOMAIN swagger.paths
              /\ DecodedKeys(swagger.paths[keepPaths[i]]) \cap DOMAIN desiredGroupKinds # {}
        /\ \A gk \in DOMAIN desiredGroupKinds : desiredGroupKinds[gk]

\* path selection returned two of three paths for a map of two keys, both found
C35_Witness ==
    /\ pc = "filter"
    /\ Cardinality(DOMAIN swagger.paths) = 3
    /\ Len(keepPaths) = 2
    /\ Cardinality(DOMAIN desiredGroupKinds) = 2
    /\ \A gk \in DOMAIN desiredGroupKinds : desiredGroupKinds[gk]

\* C36: the flags that path selection tests are the ones it set itself.  When
\* it is entered no flag of the desired map is true, whatever the gate has
\* found; and for a document with paths, a desired key that the gate found in
\* discovery and that no path carries makes path selection fail, with the flag
\* of that key still false
C36_DiscoveryDoesNotSatisfyPathCheck ==
    /\ pc = "desiredPaths" => \A gk \in DOMAIN desiredGroupKinds : ~desiredGroupKinds[gk]
    /\ \A i \in DesiredPathsStages :
          \A gk \in UnmatchedKeys :
              (swagger.hasPaths /\ gate = "ok" /\ GKfound[gk]) =>
                  /\ ~stages[i].ok
                  /\ ~desiredGroupKinds[gk]
                  /\ stages[i].err[1] = << "failed to find path for GroupKind" >>

\* the gate found both desired keys, the document carries neither, and path
\* selection failed
C36_Witness ==
    /\ gate = "ok"
    /\ Cardinality(DOMAIN GKfound) = 2
    /\ \A gk \in DOMAIN GKfound : GKfound[gk]
    /\ swagger.hasPaths
    /\ UnmatchedKeys = DOMAIN desiredGroupKinds
    /\ \E i \in DesiredPathsStages : ~stages[i].ok

-----------------------------------------------------------------------------
(* Properties of the ports.                                                 *)

\* the port of the server URL that the cluster client was built for
ClientPort == SplitHostPort(URLParse(restHost).Host).port

C37_WitnessK3s ==
    /\ restHost # << >>
    /\ \E k \in 1..Len(stages) : stages[k].name = "clusterClient" /\ stages[k].ok
    /\ k3sPort # "6443"
    /\ ClientPort = PortChars(k3sPort)
    /\ ClientPort # SplitHostPort(URLParse(server).Host).port

-----------------------------------------------------------------------------
(* Further properties of waitForRancherContainer.                           *)

\* what run returns when an inspection of the container poll failed
InspectFailedErr ==
    StartErr(Chain(<< "failed to wait for rancher container", "failed to inspect container" >>))

\* C38: an inspection that returned an error is the last inspection of the
\* run, start has failed with the error of that inspection, and the wait is over
C38_InspectErrorEndsWait ==
    \A i \in CallsOf("inspect") :
        calls[i].res = "err" =>
            /\ InspectsAfter(i) = {}
            /\ \E k \in StartStages : stages[k].err = InspectFailedErr
            /\ pc # "waitReady"

\* the container was reported "not running", the next inspection failed, and
\* run has returned with the error of the failed inspection
C38_Witness ==
    /\ Returned
    /\ err = InspectFailedErr
    /\ \E i \in CallsOf("inspect") :
          /\ calls[i].res = "notrunning"
          /\ \E j \in InspectsAfter(i) : calls[j].res = "err"
====
